---------------------------- MODULE Spec2Model ----------------------------
(***************************************************************************)
(* Soundscape 3 audio-reactive visualizer: the per-frame audio-to-visual   *)
(* pipeline (Visualizer.updateFFTAndBands, Visualizer.frame) and the       *)
(* radial morph bake with its localStorage cache                           *)
(* (buildOrLoadRadialMorphTarget).                                         *)
(*                                                                         *)
(* Numbers.  JavaScript numbers are IEEE-754 doubles.  Here every          *)
(* fractional quantity is a fixed-point integer with Scale units per 1.0,  *)
(* and every multiplication or division rounds its result to the nearest   *)
(* unit, as each floating-point operation rounds its result.  Frequencies, *)
(* sample rates, bin indices and byte samples are exact integers.          *)
(***************************************************************************)
EXTENDS Integers, Sequences, FiniteSets, TLC

VARIABLES
    sampleRate,   \* Visualizer.sampleRate (Hz)
    spec,         \* Visualizer.spec: the Uint8Array the analyser fills
    energy,       \* Visualizer.energy  {bass, mid, treble, overall}
    smooth,       \* Visualizer.smooth  {bass, mid, treble, overall}
    fast,         \* Visualizer.fast    {bass}
    smoothK,      \* Visualizer.smoothK
    fastK,        \* Visualizer.fastK
    morphEnv,     \* Visualizer.morphEnv
    uMorph,       \* mat.uniforms.uMorph.value
    uBassFast,    \* mat.uniforms.uBassFast.value
    frames,       \* number of frame() calls so far (counted up to MaxFree)
    sustain,      \* consecutive most recent frames that saw the same snapshot
    switches,     \* snapshot changes made after a settled stretch
    hzIn,         \* argument of the last direct freqToIndex call
    idxOut,       \* result of the last direct freqToIndex call
    storage,      \* localStorage: the text stored under each morph cache key
    storageMode,  \* "ok", "denied" (getItem and setItem throw), "full" (setItem throws)
    baseVerts,    \* position.count of the base mesh geometry
    stl,          \* the target shape the rays are cast against
    targetAttr,   \* the "target" attributes of the solid and the wire geometry
    bakePc,       \* "idle", "yielded" (awaiting the frame callback), "returned", "threw"
    bakeI,        \* loop index i at which the bake resumes
    bakeTarget,   \* the Float32Array `target` being filled
    bakeTotal,    \* `total` of the running call
    bakeKey,      \* `cacheKey` of the running call
    bakeResult,   \* what the last call returned
    fromCache,    \* whether the last call returned on the cache-hit path
    rayCasts,     \* ray.intersectObject calls made by the last call
    progress,     \* last value passed to onProgress
    entryAtCall,  \* the cache text under cacheKey when the last call began
    storedField,  \* per key, the field a bake computed and stored there
    sessions,     \* page loads so far
    clock,        \* the browser's animation-frame timestamp (ms)
    lastTime,     \* Visualizer._lastTime (seconds)
    dt,           \* the dt the last frame() integrated with (seconds)
    ticks,        \* animation ticks the browser has begun
    running,      \* loop callbacks of the current tick still to run
    rafLoop,      \* loop callbacks registered for the next tick
    frameCalls,   \* calls of viz.frame
    samples,      \* calls of analyser.getByteFrequencyData
    draws,        \* calls of composer.render
    frameOrder,   \* the stages of the last frame(), in the order they ran
    events,       \* user-interface events handled so far (counted up to MaxEvents)
    angVelX,      \* Visualizer.angVelX
    angVelY,      \* Visualizer.angVelY
    gyro,         \* Visualizer.gyro {on, roll, pitch}
    dragging,     \* main: dragging
    lastX,        \* main: lastX
    lastY,        \* main: lastY
    rotX,         \* argument of the last mesh.rotateX call
    rotY,         \* argument of the last mesh.rotateY(angVelY + gyroX) call
    build,        \* which of the two Visualizer definitions of DOM.js is running
    pal,          \* Visualizer.pal: the palette it was made from
    cssBackground,   \* palette of the .wrap radial-gradient
    sceneBackground, \* palette of scene.background ("fixed": the constant texture)
    uBaseColor,   \* palette that uniforms.uBaseColor was derived from
    uGlowColor,   \* palette that uniforms.uGlowColor was derived from
    starfieldTint,   \* palette whose glow the starfield vertex colours were baked from
    baseHSL,      \* palette last read into Visualizer.baseHSL / glowHSL
    paletteEvents,   \* palette changes that have finished (counted up to MaxEvents)
    stlLoad,      \* STLLoader.load: "pending", "loaded" or "failed"
    errorLogged,  \* whether console.error reported a failed bake
    overlayShown, \* whether the progress overlay is visible
    meshGen,      \* makeMesh calls so far (counted up to MaxEvents + 1)
    uniformsOf,   \* per material, the makeMesh call whose uniforms object it reads
    midBakeEvents, \* resolution changes handled while a bake was suspended
    rotationSpeed,   \* Visualizer.rotationSpeed
    distortion,      \* Visualizer.distortion
    reactivity,      \* Visualizer.reactivity
    bloomStrength,   \* Visualizer.bloomPass.strength
    uReactivity,     \* mat.uniforms.uReactivity.value
    uDistortion,     \* mat.uniforms.uDistortion.value
    rotStep,         \* argument of the last mesh.rotateY(rotationSpeed * 0.01) call
    orbitPhase,      \* Visualizer.orbit.phase
    uKeyI,           \* mat.uniforms.uKeyI.value
    uFillI,          \* mat.uniforms.uFillI.value
    uRimI,           \* mat.uniforms.uRimI.value
    palHue,          \* hues of Visualizer.pal.base and Visualizer.pal.glow
    uHue,            \* hues of uniforms.uBaseColor and uniforms.uGlowColor
    override,        \* the last slider override and the frames run since
    scene,           \* Visualizer.scene.children: the objects in the scene
    disposed,        \* the objects passed to disposeObject
    meshes,          \* every mesh group makeMesh has returned
    stars,           \* every point cloud createStarfield has returned
    vizMesh,         \* Visualizer.mesh
    vizStars,        \* Visualizer.starfield and Visualizer.starfieldBlur
    permApi,         \* whether DeviceOrientationEvent.requestPermission exists
    permPending,     \* toggleGyro calls awaiting requestPermission()
    listeners,       \* deviceorientation listeners registered on window
    statText,        \* textContent of the #stat element
    denials,         \* toggleGyro calls that ended in the catch block
    permPeak,        \* the most requestPermission() calls that were pending at once
    lastAnswer,      \* how the last requestPermission() call settled
    actxState,       \* actx.state: "suspended" or "running"
    audioPaused,     \* audio.paused
    handlers,        \* async handler calls suspended at an await
    uncaught,        \* errors that left a handler uncaught
    audioFailures    \* resume(), suspend() and play() calls that rejected

audioVars == <<sampleRate, spec, energy, smooth, fast, smoothK, fastK,
               morphEnv, uMorph, uBassFast, frames, sustain, switches>>
freqVars == <<hzIn, idxOut>>
bakeVars == <<storage, storageMode, baseVerts, stl, targetAttr, bakePc, bakeI,
              bakeTarget, bakeTotal, bakeKey, bakeResult, fromCache, rayCasts,
              progress, entryAtCall, storedField, sessions>>
tickVars == <<clock, lastTime, dt, ticks, running, rafLoop, frameCalls,
              samples, draws, frameOrder, events>>
spinVars == <<angVelX, angVelY, gyro, dragging, lastX, lastY, rotX, rotY>>
paletteVars == <<build, pal, cssBackground, sceneBackground, uBaseColor,
                 uGlowColor, starfieldTint, baseHSL, paletteEvents>>
meshVars == <<stlLoad, errorLogged, overlayShown, meshGen, uniformsOf,
              midBakeEvents>>
fxVars == <<rotationSpeed, distortion, reactivity, bloomStrength, uReactivity,
            uDistortion, rotStep, orbitPhase, uKeyI, uFillI, uRimI, palHue,
            uHue, override>>
sceneVars == <<scene, disposed, meshes, stars, vizMesh, vizStars>>
permVars == <<permApi, permPending, listeners, statText, denials, permPeak,
              lastAnswer>>
playVars == <<actxState, audioPaused, handlers, uncaught, audioFailures>>
moreVars == <<fxVars, sceneVars, permVars, playVars>>
uiVars == <<tickVars, spinVars, paletteVars, meshVars, moreVars>>
vars == <<audioVars, freqVars, bakeVars, uiVars>>

---------------------------------------------------------------------------
(* Bounds of the model *)

Scale == 5000            \* fixed-point units per 1.0
FramesPerSecond == 60    \* animation ticks per second of the display
MaxFree == 1             \* leading frames that may each see any snapshot
MaxSwitches == 1         \* snapshot changes after a settled stretch
MaxHzFine == 45          \* freqToIndex is probed at every Hz in 0..MaxHzFine
MaxVerts == 2            \* vertex counts of the base mesh are 1..MaxVerts
MaxSessions == 2         \* page loads
MaxTicks == 2            \* animation ticks followed in the tick specifications
MaxMeshTicks == 1        \* animation ticks followed alongside a bake
MaxMeshEvents == 2       \* user-interface events followed alongside a bake
MaxEvents == 4           \* user-interface events followed
MaxPlayEvents == 3       \* play-button clicks and file changes followed
MaxFxTicks == 2          \* animation ticks followed alongside slider overrides
MaxFxEvents == 1         \* slider, wheel and palette events followed alongside frames

SettleFrames == 5 * FramesPerSecond

---------------------------------------------------------------------------
(* Program constants *)

FftSize == 2048          \* analyser.fftSize
fftBins == FftSize \div 2   \* analyser.frequencyBinCount = fftSize / 2

BassLoHz == 20
BassHiHz == 200
MidLoHz == 110
MidHiHz == 1500
TrebleLoHz == 20
TrebleHiHz == 3000
OverallLoHz == 0
OverallHiHz == 20000

ByteMax == 255

YIELD_EVERY == 600

\* Config.smoothing / Config.morph, in hundredths
SlowPct == 4
FastPct == 2
ThresholdPct == 55
KneePct == 160 - 55
AttackPct == 7
ReleasePct == 5
EnvInitPct == 90
DesiredGainPct == 135
UMorphInitPct == 5
UBassFastInitPct == 10

\* Config.spin, the frame clock and the gyro gain
SpinDampPct == 80
MaxOmegaPct == 370
DragSensitivityPerMille == 2
GyroGainPct == 8
DtMaxPct == 10
DtFirstMs == 16

\* Config.mesh, Config.bloom, Config.lights, Config.orbit and the factors of
\* frame(), in hundredths unless named otherwise
RotationSpeedPct == 70
DistortionPct == 120
ReactivityPct == 150
BloomStrengthPct == 45
KeyIntensityPct == 80
FillIntensityPct == 60
RimIntensityPct == 90
OrbitBaseSpeedPerMille == 15
OrbitTreblePct == 70
OrbitOverallPct == 20
RotStepPct == 1
ReactivityFloorPct == 90
ReactivityGainPct == 260
LightScaleTopPct == 95
LightScaleSlopePct == 55
BloomBlendPct == 8
HueShiftPct == 45
GlowShiftPct == 120
WheelStepPct == 2

---------------------------------------------------------------------------
(* Fixed-point arithmetic *)

\* n / d rounded to the nearest integer (d > 0)
RoundDiv(n, d) ==
    LET q == n \div d
        r == n % d
    IN  IF 2 * r >= d THEN q + 1 ELSE q

\* the fixed-point value of p/100
Pct(p) == RoundDiv(p * Scale, 100)

Mul(a, b) == RoundDiv(a * b, Scale)
Div(a, b) == RoundDiv(a * Scale, b)

Min(a, b) == IF a < b THEN a ELSE b
Max(a, b) == IF a > b THEN a ELSE b
Abs(a) == IF a < 0 THEN -a ELSE a

clamp(v, lo, hi) == Max(lo, Min(hi, v))

\* lerp with its end points exchanged
lerpSwapped(a, b, t) == b + Mul(a - b, t)

lerp(a, b, t) == a + Mul(b - a, t)

smoothstepEdge(a, b, x) ==
    LET t == clamp(Div(x - a, b - a), 0, Scale)
    IN  Mul(Mul(t, t), 3 * Scale - 2 * t)


---------------------------------------------------------------------------
(* Band extraction: Visualizer.freqToIndex, Visualizer.updateFFTAndBands *)

\* Math.round(clamp(hz / (sampleRate * 0.5), 0, 1) * (spec.length - 1));
\* Math.round rounds halves up.
\* freqToIndex without the clamp of hz / nyq
freqToIndexUnclamped(hz) ==
    (4 * hz * (fftBins - 1) + sampleRate) \div (2 * sampleRate)

freqToIndex(hz) ==
    LET n1 == fftBins - 1
    IN  IF hz <= 0 THEN 0
        ELSE IF 2 * hz >= sampleRate THEN n1
        ELSE (4 * hz * n1 + sampleRate) \div (2 * sampleRate)

\* The body of avg's for loop, run from bin i up to bin hi; the loop is
\* evaluated in blocks of LoopBlock iterations to bound the evaluation depth.
LoopBlock == 32

RECURSIVE avgLoopBlock(_, _, _, _, _)
avgLoopBlock(sp, i, hi, s, c) ==
    IF i <= hi
    THEN avgLoopBlock(sp, i + 1, hi, s + sp[i], c + 1)
    ELSE [s |-> s, c |-> c, i |-> i]

RECURSIVE avgLoop(_, _, _, _, _)
avgLoop(sp, i, hi, s, c) ==
    IF i <= hi
    THEN LET r == avgLoopBlock(sp, i, Min(hi, i + LoopBlock - 1), s, c)
         IN  avgLoop(sp, r.i, hi, r.s, r.c)
    ELSE [s |-> s, c |-> c]

\* avg normalising by 127 instead of 255
avgResultHalfRange(s, c) == IF c # 0 THEN RoundDiv(s * Scale, c * 127) ELSE 0

\* c ? s / (c * 255) : 0
avgResult(s, c) == IF c # 0 THEN RoundDiv(s * Scale, c * ByteMax) ELSE 0

\* avg over the half-open range i0 <= i < i1
avgHalfOpen(sp, i0, i1) ==
    LET r == avgLoop(sp, Max(0, i0), Min(fftBins - 1, i1) - 1, 0, 0)
    IN  avgResult(r.s, r.c)

avg(sp, i0, i1) ==
    LET N == fftBins
        r == avgLoop(sp, Max(0, i0), Min(N - 1, i1), 0, 0)
    IN  avgResult(r.s, r.c)

bandEnergies(sp) ==
    [bass    |-> avg(sp, freqToIndex(BassLoHz), freqToIndex(BassHiHz)),
     mid     |-> avg(sp, freqToIndex(MidLoHz), freqToIndex(MidHiHz)),
     treble  |-> avg(sp, freqToIndex(TrebleLoHz), freqToIndex(TrebleHiHz)),
     overall |-> avg(sp, freqToIndex(OverallLoHz), freqToIndex(OverallHiHz))]

smoothUpdate(sm, e, k) ==
    [bass    |-> lerp(sm.bass, e.bass, k),
     mid     |-> lerp(sm.mid, e.mid, k),
     treble  |-> lerp(sm.treble, e.treble, k),
     overall |-> lerp(sm.overall, e.overall, k)]

fastUpdate(f, e, k) == [bass |-> lerp(f.bass, e.bass, k)]

---------------------------------------------------------------------------
(* Morph gate: Visualizer.frame *)

morphThreshold == Pct(ThresholdPct)
morphKnee == Pct(KneePct)
morphAttack == Pct(AttackPct)
morphRelease == Pct(ReleasePct)

gateStart == morphThreshold - morphKnee
gateEnd == morphThreshold + morphKnee

morphGate(x) == smoothstepEdge(gateStart, gateEnd, x)

morphLifted(x) == clamp(Div(x - gateStart, Scale - gateStart), 0, Scale)

\* the desired morph value without its clamp to [0,1]
morphDesiredUnclamped(x) ==
    Mul(Mul(morphGate(x), morphLifted(x)), Pct(DesiredGainPct))

morphDesired(x) ==
    clamp(Mul(Mul(morphGate(x), morphLifted(x)), Pct(DesiredGainPct)), 0, Scale)

\* the attack and release rates exchanged
morphRateSwapped(desired, env) ==
    IF desired > env THEN morphRelease ELSE morphAttack

morphRate(desired, env) == IF desired > env THEN morphAttack ELSE morphRelease

morphStep(env, x) ==
    LET desired == morphDesired(x)
    IN  env + Mul(desired - env, morphRate(desired, env))

bassFastUniform(x) == Mul(morphGate(x), x)

---------------------------------------------------------------------------
(* Spectrum snapshots the analyser may deliver (getByteFrequencyData) *)

Flat(v) == [i \in 0 .. (fftBins - 1) |-> v]
Step(k, a, b) == [i \in 0 .. (fftBins - 1) |-> IF i < k THEN a ELSE b]

Silence == Flat(0)
FullScale == Flat(ByteMax)
BassHeavy == Step(12, ByteMax, 3)

Snapshots == {Silence, FullScale, BassHeavy}
BandSnapshots == Snapshots \cup {Flat(128), Step(5, 0, 200), Step(140, 1, 254)}

SampleRates == {8000, 11025, 16000, 22050, 32000, 44100, 48000, 88200, 96000, 192000}

---------------------------------------------------------------------------
(* The morph cache: localStorage texts and Float32Arrays *)

\* An element of a Float32Array: a finite fixed-point number, or NaN
Fin(v) == [fin |-> TRUE, v |-> v]
NaN == [fin |-> FALSE, v |-> 0]

\* Arrays are functions on 0 .. n-1
Length(a) == Cardinality(DOMAIN a)
EmptyArr == [i \in 0 .. -1 |-> Fin(0)]
zeros(n) == [i \in 0 .. (n - 1) |-> Fin(0)]

\* Tokens of a JSON array
NumTok(v) == [t |-> "num", v |-> v]
NullTok == [t |-> "null", v |-> 0]
StrTok == [t |-> "str", v |-> 0]

\* What localStorage.getItem may hand back
NoEntry == [kind |-> "none"]        \* null: no entry
EmptyText == [kind |-> "empty"]     \* ""
Garbage == [kind |-> "garbage"]     \* text that is not JSON
NullDoc == [kind |-> "null"]        \* "null"
ObjectDoc == [kind |-> "object"]    \* "{}"
NumberDoc(n) == [kind |-> "number", n |-> n]         \* "36"
ArrayDoc(items) == [kind |-> "array", items |-> items]

StlUrl == "/spikeball.stl"
CacheKey(n) == <<"morph:", StlUrl, ":verts:", n>>
\* vertex counts that take a bake through zero, one and two full chunks
ChunkTotals == {YIELD_EVERY, YIELD_EVERY + 1, 2 * YIELD_EVERY + 1}

CacheKeys == {CacheKey(n) : n \in (1 .. MaxVerts) \cup ChunkTotals}

\* JSON.stringify of one array element: NaN and the infinities print as null
toJsonItem(x) == IF x.fin THEN NumTok(x.v) ELSE NullTok

\* JSON.stringify(Array.from(target))
stringify(arr) == ArrayDoc([i \in DOMAIN arr |-> toJsonItem(arr[i])])

\* a parsed number read as an integer (parseInt)
fromJsonItemInt(tok) ==
    IF tok.t = "num" THEN Fin((tok.v \div Scale) * Scale)
    ELSE IF tok.t = "null" THEN Fin(0)
    ELSE NaN

\* ToNumber of a parsed array element, as the Float32Array constructor
\* applies it: null becomes 0, a non-numeric string NaN
fromJsonItem(tok) ==
    IF tok.t = "num" THEN Fin(tok.v)
    ELSE IF tok.t = "null" THEN Fin(0)
    ELSE NaN

\* new Float32Array(JSON.parse(cached)) for a non-empty text
newFloat32Array(doc) ==
    IF doc.kind = "garbage" THEN [ok |-> FALSE, arr |-> EmptyArr]    \* SyntaxError
    ELSE IF doc.kind = "array"
    THEN [ok |-> TRUE, arr |-> [i \in DOMAIN doc.items |-> fromJsonItem(doc.items[i])]]
    ELSE IF doc.kind = "number"
    THEN IF doc.n < 0 THEN [ok |-> FALSE, arr |-> EmptyArr]          \* RangeError
         ELSE [ok |-> TRUE, arr |-> zeros(doc.n)]
    ELSE [ok |-> TRUE, arr |-> EmptyArr]                             \* null, {}

CacheMiss == [hit |-> FALSE, arr |-> EmptyArr]

\* the cache-hit path without the comparison of lengths
cacheReadNoLengthCheck(store, mode, key, expected) ==
    IF mode = "denied" THEN CacheMiss
    ELSE IF store[key].kind \in {"none", "empty"} THEN CacheMiss
    ELSE LET r == newFloat32Array(store[key])
         IN  IF r.ok THEN [hit |-> TRUE, arr |-> r.arr] ELSE CacheMiss

\* the try block of buildOrLoadRadialMorphTarget
cacheRead(store, mode, key, expected) ==
    IF mode = "denied" THEN CacheMiss                                \* getItem throws
    ELSE IF store[key].kind \in {"none", "empty"} THEN CacheMiss     \* if (cached)
    ELSE LET r == newFloat32Array(store[key])
         IN  IF r.ok /\ Length(r.arr) = expected
             THEN [hit |-> TRUE, arr |-> r.arr]
             ELSE CacheMiss

\* localStorage.setItem inside its try block
cacheWrite(store, mode, key, arr) ==
    IF mode = "ok" THEN [store EXCEPT ![key] = stringify(arr)] ELSE store

---------------------------------------------------------------------------
(* The ray casts of the bake *)

\* Base vertices lie on the coordinate axes, at radius 1
Axes == << <<Scale, 0, 0>>, <<0, Scale, 0>>, <<0, 0, Scale>>,
           <<-Scale, 0, 0>>, <<0, -Scale, 0>>, <<0, 0, -Scale>> >>

basePosition(i) == Axes[(i % 6) + 1]

\* Vector3.normalize: divideScalar(length() || 1); on an axis the length is
\* the sum of the absolute components
normalize(v) ==
    LET len == Abs(v[1]) + Abs(v[2]) + Abs(v[3])
        l == IF len = 0 THEN Scale ELSE len
    IN  <<Div(v[1], l), Div(v[2], l), Div(v[3], l)>>

StlShapes == {"spiky", "hollow"}

\* ray.intersectObject(stlMesh, false): the distances of the hits, nearest first
intersectObject(shape, i) ==
    IF shape = "hollow" THEN << >>
    ELSE IF i % 3 = 2 THEN << >>
    ELSE <<Pct(40 + 30 * (i % 3)), Pct(120)>>

\* the three components the loop body writes for vertex i: v * d
vertexTarget(shape, i) ==
    LET v == normalize(basePosition(i))
        hit == intersectObject(shape, i)
        d == IF Len(hit) > 0 THEN hit[1] ELSE Scale
    IN  <<Fin(Mul(v[1], d)), Fin(Mul(v[2], d)), Fin(Mul(v[3], d))>>

\* one iteration of the for loop, up to the yield test
bakeVertex(tgt, shape, i) ==
    LET w == vertexTarget(shape, i)
        j == i * 3
    IN  [tgt EXCEPT ![j] = w[1], ![j + 1] = w[2], ![j + 2] = w[3]]

\* a yield test one iteration too late
yieldsAtLate(i) == i % (YIELD_EVERY + 1) = 0

\* (i % YIELD_EVERY) === 0
yieldsAt(i) == i % YIELD_EVERY = 0

\* the fraction still to do
progressRemaining(i, total) == Div(total - i, total)

\* onProgress?.(i / total)
progressAt(i, total) == Div(i, total)

\* a loop that suspends without having advanced
bakeRunStuck(tgt, shape, i, total, casts) ==
    [pc |-> "yielded", target |-> tgt, i |-> i, casts |-> casts, pct |-> 0]

\* the loop body run for the vertices lo .. hi in order: each iteration
\* writes only its own three components, whatever the array held
bakeRange(tgt, shape, lo, hi) ==
    [k \in DOMAIN tgt |->
        IF (k \div 3) \in lo .. hi
        THEN vertexTarget(shape, k \div 3)[(k % 3) + 1]
        ELSE tgt[k]]

\* the for loop from index i until it yields or ends: it runs the body up to
\* and including the first index that passes the yield test
bakeRun(tgt, shape, i, total, casts) ==
    LET ys == {j \in i .. (total - 1) : yieldsAt(j)}
    IN  IF ys = {}
        THEN [pc |-> "returned", target |-> bakeRange(tgt, shape, i, total - 1),
              i |-> Max(i, total), casts |-> casts + Max(0, total - i),
              pct |-> Scale]
        ELSE LET stop == CHOOSE j \in ys : \A m \in ys : j <= m
             IN  [pc |-> "yielded", target |-> bakeRange(tgt, shape, i, stop),
                  i |-> stop + 1, casts |-> casts + (stop + 1 - i),
                  pct |-> progressAt(stop, total)]

\* a copy without the length test
applyMorphTargetArrayAnyLength(attr, targetArray) ==
    [solid |-> targetArray, wire |-> targetArray]

\* the copy into the solid geometry only
applyMorphTargetArraySolidOnly(attr, targetArray) ==
    [solid |-> IF Length(attr.solid) = Length(targetArray) THEN targetArray ELSE attr.solid,
     wire  |-> attr.wire]

\* Visualizer.applyMorphTargetArray
applyMorphTargetArray(attr, targetArray) ==
    [solid |-> IF Length(attr.solid) = Length(targetArray) THEN targetArray ELSE attr.solid,
     wire  |-> IF Length(attr.wire) = Length(targetArray) THEN targetArray ELSE attr.wire]

\* Visualizer.makeMesh: both geometries get an all-zero target attribute
freshTargetAttr(n) == [solid |-> zeros(3 * n), wire |-> zeros(3 * n)]

NoField == [has |-> FALSE, arr |-> EmptyArr]

\* texts that may lie under the cache key when the page loads
InitialDocs(n) ==
    {NoEntry, EmptyText, Garbage, NullDoc, ObjectDoc,
     NumberDoc(3 * n), NumberDoc(3 * n + 1), NumberDoc(-1),
     ArrayDoc([i \in 0 .. (3 * n - 1) |-> StrTok]),
     ArrayDoc([i \in 0 .. (3 * n - 1) |-> NumTok(7)]),
     ArrayDoc([i \in 0 .. (3 * n + 2) |-> NumTok(7)])}

InitBake(verts, docs, modes, shapes) ==
    /\ baseVerts \in verts
    /\ \E d \in docs[baseVerts] :
          storage = [key \in CacheKeys |->
                        IF key = CacheKey(baseVerts) THEN d ELSE NoEntry]
    /\ storageMode \in modes
    /\ stl \in shapes
    /\ targetAttr = freshTargetAttr(baseVerts)
    /\ bakePc = "idle"
    /\ bakeI = 0
    /\ bakeTarget = EmptyArr
    /\ bakeTotal = 0
    /\ bakeKey = CacheKey(baseVerts)
    /\ bakeResult = EmptyArr
    /\ fromCache = FALSE
    /\ rayCasts = 0
    /\ progress = 0
    /\ entryAtCall = NoEntry
    /\ storedField = [key \in CacheKeys |-> NoField]
    /\ sessions = 0

InitBakeIdle == InitBake({1}, [n \in {1} |-> {NoEntry}], {"ok"}, {"spiky"})

---------------------------------------------------------------------------
(* The frame clock, the spin and the gyro *)

\* t_ms * 0.001
seconds(t_ms) == RoundDiv(t_ms * Scale, 1000)

\* the frame clock without the Math.min
frameDtUnclamped(last, t) ==
    IF last # 0 THEN t - last ELSE seconds(DtFirstMs)

\* dt = this._lastTime ? Math.min(0.1, t - this._lastTime) : 0.016
frameDt(last, t) ==
    IF last # 0 THEN Min(Pct(DtMaxPct), t - last) ELSE seconds(DtFirstMs)

maxOmega == Pct(MaxOmegaPct)
spinDamp == Pct(SpinDampPct)
dragSensitivity == RoundDiv(DragSensitivityPerMille * Scale, 1000)

\* pointermove: clamp(angVel + d * dragSensitivity, -maxOmega, maxOmega)
dragVel(v, d) == clamp(v + d * dragSensitivity, -maxOmega, maxOmega)

\* frame: clamp(angVel * spinDamp, -cap, cap)
dampVel(v) == clamp(Mul(v, spinDamp), -maxOmega, maxOmega)

PiScaled == RoundDiv(31416 * Scale, 10000)

\* onDOF: roll = ((gamma || 0) / 90) * PI * 0.25, pitch = ((beta || 0) / 180) * PI * 0.25
gyroRoll(gamma) == RoundDiv(gamma * PiScaled, 90 * 4)
gyroPitch(beta) == RoundDiv(beta * PiScaled, 180 * 4)

\* frame: gyroY = gyro.on ? gyro.pitch * 0.08 : 0, gyroX likewise from roll
gyroY(g) == IF g.on THEN Mul(g.pitch, Pct(GyroGainPct)) ELSE 0
gyroX(g) == IF g.on THEN Mul(g.roll, Pct(GyroGainPct)) ELSE 0

---------------------------------------------------------------------------
(* frame(): rotation, uniforms, orbit, lights, bloom and the palette hue *)

\* this.mesh.rotateY(this.rotationSpeed * 0.01)
frameRotStep(rs) == Mul(rs, Pct(RotStepPct))

\* mat.uniforms.uDistortion.value = this.distortion
frameDistortion(d) == d

\* mat.uniforms.uReactivity.value = 0.9 + 2.6 * this.smooth.overall;
\* this.reactivity (r) is not read
frameReactivity(r, overall) ==
    Pct(ReactivityFloorPct) + Mul(Pct(ReactivityGainPct), overall)

\* a light scale that grows with the energy
lightScaleRising(e) == Pct(LightScaleTopPct - LightScaleSlopePct) + Mul(Pct(LightScaleSlopePct), e)

\* lightScale = 0.95 - 0.55 * energy
lightScale(e) == Pct(LightScaleTopPct) - Mul(Pct(LightScaleSlopePct), e)

\* energy = clamp(this.smooth.overall, 0, 1)
frameEnergy(sm) == clamp(sm.overall, 0, Scale)

\* uniforms.uKeyI / uFillI / uRimI = this.lights.<x>Intensity * lightScale
lightIntensity(configured, e) == Mul(configured, lightScale(e))

baseBloomStrength == Pct(BloomStrengthPct)

\* targetBloom = baseBloomStrength * (0.95 - 0.55 * energy);
\* bloomPass.strength += (targetBloom - bloomPass.strength) * 0.08
frameBloom(strength, e) ==
    LET targetBloom == Mul(baseBloomStrength, Pct(LightScaleTopPct) - Mul(Pct(LightScaleSlopePct), e))
    IN  strength + Mul(targetBloom - strength, Pct(BloomBlendPct))

orbitBaseSpeed == RoundDiv(OrbitBaseSpeedPerMille * Scale, 1000)

\* an orbit speed that the audio slows down
orbitSpeedSlowing(sm) ==
    orbitBaseSpeed - Mul(Pct(OrbitTreblePct), sm.treble) - Mul(Pct(OrbitOverallPct), sm.overall) - Scale

\* speed = orbit.baseSpeed + 0.7 * smooth.treble + 0.2 * smooth.overall
orbitSpeed(sm) ==
    orbitBaseSpeed + Mul(Pct(OrbitTreblePct), sm.treble) + Mul(Pct(OrbitOverallPct), sm.overall)

\* this.orbit.phase += dt * speed
orbitStep(phase, d, sm) == phase + Mul(d, orbitSpeed(sm))

\* hues of palette(id).base and palette(id).glow, as getHSL reports them
paletteHue(id) ==
    LET h == CASE id = "burn"  -> [base |-> 69, glow |-> 89]
               [] id = "noir"  -> [base |-> 753, glow |-> 750]
               [] OTHER        -> [base |-> 771, glow |-> 904]
    IN  [base |-> RoundDiv(h.base * Scale, 1000), glow |-> RoundDiv(h.glow * Scale, 1000)]

\* shift = this.smooth.mid * 0.45
hueShift(mid) == Mul(mid, Pct(HueShiftPct))

\* a hue that starts from the one the uniform already holds
frameHueDrifting(palH, prevH, shift) == (prevH + shift) % Scale

\* baseH = (this.baseHSL.h + shift) % 1, read from this.pal on every frame;
\* the hue the uniform holds (prevH) is not read
frameHue(palH, prevH, shift) == (palH + shift) % Scale

\* the wheel handler: (h + step + 1) % 1
wheelHue(h, step) == (h + step + Scale) % Scale

NoOverride == [kind |-> "none", value |-> 0, frames |-> 0]

\* the constructor and makeMesh: the overrides at their Config values, the
\* uniforms at the values makeMesh gives them
InitFx ==
    /\ rotationSpeed = Pct(RotationSpeedPct)
    /\ distortion = Pct(DistortionPct)
    /\ reactivity = Pct(ReactivityPct)
    /\ bloomStrength = baseBloomStrength
    /\ uReactivity = Pct(ReactivityPct)
    /\ uDistortion = Pct(DistortionPct)
    /\ rotStep = 0
    /\ orbitPhase = 0
    /\ uKeyI = Pct(KeyIntensityPct)
    /\ uFillI = Pct(FillIntensityPct)
    /\ uRimI = Pct(RimIntensityPct)
    /\ palHue = paletteHue("burn")
    /\ uHue = paletteHue("burn")
    /\ override = NoOverride

\* the stages of frame(), in source order
FrameSteps == <<"sample", "bands", "smooth", "camera", "starfield", "spin",
                "uniforms", "draw">>

\* requestAnimationFrame(loop) registered twice by each callback
rafAfterLoopTwice(q) == q + 2

\* loop: requestAnimationFrame(loop) adds one callback to the next tick
rafAfterLoop(q) == q + 1

InitTick ==
    /\ clock = 0
    /\ lastTime = 0
    /\ dt = 0
    /\ ticks = 0
    /\ running = 0
    /\ rafLoop = rafAfterLoop(0)
    /\ frameCalls = 0
    /\ samples = 0
    /\ draws = 0
    /\ frameOrder = << >>
    /\ events = 0

InitSpin ==
    /\ angVelX = 0
    /\ angVelY = 0
    /\ gyro = [on |-> FALSE, roll |-> 0, pitch |-> 0]
    /\ dragging = FALSE
    /\ lastX = 0
    /\ lastY = 0
    /\ rotX = 0
    /\ rotY = 0

Builds == {"first", "second"}
Palettes == {"burn", "synth", "noir"}

\* the constructor: palette("burn"), applyBackground, the scene background
\* (from the palette in the first definition, a constant texture in the
\* second), the starfields and, in makeMesh, the colour uniforms
InitPalette(builds) ==
    /\ build \in builds
    /\ pal = "burn"
    /\ cssBackground = "burn"
    /\ sceneBackground = IF build = "first" THEN "burn" ELSE "fixed"
    /\ uBaseColor = "burn"
    /\ uGlowColor = "burn"
    /\ starfieldTint = "burn"
    /\ baseHSL = "burn"
    /\ paletteEvents = 0

\* main before the STL has answered; makeMesh has run once
InitMesh(loads) ==
    /\ stlLoad \in loads
    /\ errorLogged = FALSE
    /\ overlayShown = FALSE
    /\ meshGen = 1
    /\ uniformsOf = [solid |-> 1, wire |-> 1]
    /\ midBakeEvents = 0

\* scene.remove that takes nothing out
sceneRemoveNothing(scn, o) == scn

\* scene.remove(o)
sceneRemove(scn, o) == scn \ {o}

\* scene.add(o): an object is in the scene at most once
sceneAdd(scn, o) == scn \cup {o}

\* the identity of the next object of a kind, given those made so far
newObject(kind, made) == <<kind, Cardinality(made) + 1>>

\* the constructor: the two starfields, then the mesh, all added to the scene
InitScene ==
    /\ stars = {<<"points", 1>>, <<"points", 2>>}
    /\ meshes = {<<"group", 1>>}
    /\ vizStars = [main |-> <<"points", 1>>, blur |-> <<"points", 2>>]
    /\ vizMesh = <<"group", 1>>
    /\ scene = sceneAdd(sceneAdd(sceneAdd({}, <<"points", 1>>), <<"points", 2>>),
                        <<"group", 1>>)
    /\ disposed = {}

\* Visualizer.rebuildStarfield: both clouds are removed from the scene and
\* disposed, two new ones are created and added
rebuildStarfield ==
    LET a == newObject("points", stars)
        b == newObject("points", stars \cup {a})
        s1 == sceneRemove(sceneRemove(scene, vizStars.main), vizStars.blur)
    IN  /\ disposed' = disposed \cup {vizStars.main, vizStars.blur}
        /\ stars' = stars \cup {a, b}
        /\ vizStars' = [main |-> a, blur |-> b]
        /\ scene' = sceneAdd(sceneAdd(s1, a), b)
        /\ UNCHANGED <<meshes, vizMesh>>

\* viz.mesh = viz.makeMesh(subdiv); viz.scene.add(viz.mesh): makeMesh
\* removes the mesh in place from the scene and disposes it
replaceMesh ==
    LET m == newObject("group", meshes)
    IN  /\ disposed' = disposed \cup {vizMesh}
        /\ meshes' = meshes \cup {m}
        /\ vizMesh' = m
        /\ scene' = sceneAdd(sceneRemove(scene, vizMesh), m)
        /\ UNCHANGED <<stars, vizStars>>

\* window.addEventListener that registers the same callback once more
addEventListenerAgain(n) == n + 1

\* window.addEventListener("deviceorientation", onDOF, ...): a listener with
\* the same type, callback and capture flag is registered only once
addEventListener(n) == IF n = 0 THEN 1 ELSE n

\* window.removeEventListener("deviceorientation", onDOF)
removeEventListener(n) == IF n > 0 THEN n - 1 ELSE 0

\* toggleGyro that takes any answer but an exception for a grant
permissionGrantedUnlessThrown(r) == r # "throws"

\* r = await requestPermission(); if (r !== "granted") throw: the call goes
\* on only when the promise resolved with "granted"
permissionGranted(r) == r = "granted"

\* main before any click: no permission asked, no listener
InitPerm(apis) ==
    /\ permApi \in apis
    /\ permPending = 0
    /\ listeners = 0
    /\ statText = "Loaded default"
    /\ denials = 0
    /\ permPeak = 0
    /\ lastAnswer = "none"

\* an await with no try around it: a rejection leaves the handler
awaitUnguarded(outcome) == IF outcome = "rejects" THEN "throw" ELSE "continue"

\* try { await ... } catch {}: the handler carries on whether the promise
\* resolved or rejected
tryAwait(outcome) == "continue"

NoHandlers == [resume |-> 0, play |-> 0, suspend |-> 0, fileSuspend |-> 0]

\* main after ensureAudio: the context exists, the element is paused
InitPlay(states) ==
    /\ actxState \in states
    /\ audioPaused = TRUE
    /\ handlers = NoHandlers
    /\ uncaught = 0
    /\ audioFailures = 0

InitMore == InitFx /\ InitScene /\ InitPerm({FALSE}) /\ InitPlay({"suspended"})

InitUi ==
    /\ InitTick /\ InitSpin /\ InitPalette({"second"}) /\ InitMesh({"pending"})
    /\ InitMore

---------------------------------------------------------------------------
(* State after construction: Visualizer constructor *)

ZeroBands == [bass |-> 0, mid |-> 0, treble |-> 0, overall |-> 0]

InitAudio(rates, ks) ==
    /\ sampleRate \in rates
    /\ spec = Flat(0)
    /\ energy = ZeroBands
    /\ smooth = ZeroBands
    /\ fast = [bass |-> 0]
    /\ \E k \in ks : smoothK = k[1] /\ fastK = k[2]
    /\ morphEnv = Pct(EnvInitPct)
    /\ uMorph = Pct(UMorphInitPct)
    /\ uBassFast = Pct(UBassFastInitPct)
    /\ frames = 0
    /\ sustain = 0
    /\ switches = 0

InitFreq ==
    /\ hzIn = 0
    /\ idxOut = freqToIndex(0)

ConfigSmoothing == {<<Pct(SlowPct), Pct(FastPct)>>}

Init == InitAudio({44100}, ConfigSmoothing) /\ InitFreq /\ InitBakeIdle /\ InitUi

---------------------------------------------------------------------------
(* Visualizer.frame: updateFFTAndBands, then the morph gate *)

frame(snap) ==
    \E e \in {bandEnergies(snap)} :
    \E f \in {fastUpdate(fast, e, fastK)} :
    \E env \in {morphStep(morphEnv, f.bass)} :
        /\ spec' = snap
        /\ energy' = e
        /\ smooth' = smoothUpdate(smooth, e, smoothK)
        /\ fast' = f
        /\ morphEnv' = env
        /\ uMorph' = env
        /\ uBassFast' = bassFastUniform(f.bass)
        /\ UNCHANGED <<sampleRate, smoothK, fastK>>

\* The analyser holds the snapshot of the previous frame
HeldFrame ==
    /\ frames > 0
    /\ frame(spec)
    /\ sustain' = Min(sustain + 1, SettleFrames)
    /\ frames' = Min(frames + 1, MaxFree)
    /\ UNCHANGED <<switches, freqVars, bakeVars, uiVars>>

\* One of the first frames: the analyser delivers any snapshot
FreeFrame(snaps, limit) ==
    /\ frames < limit
    /\ \E snap \in snaps :
          /\ frame(snap)
          /\ sustain' = IF frames > 0 /\ snap = spec THEN sustain + 1 ELSE 1
    /\ frames' = frames + 1
    /\ UNCHANGED <<switches, freqVars, bakeVars, uiVars>>

\* The signal changes after a settled stretch
SwitchFrame(snaps) ==
    /\ frames > 0
    /\ sustain >= SettleFrames
    /\ switches < MaxSwitches
    /\ \E snap \in snaps \ {spec} : frame(snap)
    /\ sustain' = 1
    /\ switches' = switches + 1
    /\ UNCHANGED <<frames, freqVars, bakeVars, uiVars>>

Next ==
    \/ FreeFrame(Snapshots, MaxFree)
    \/ HeldFrame
    \/ SwitchFrame(Snapshots)

Spec == Init /\ [][Next]_vars


---------------------------------------------------------------------------
(* Band extraction under every sample rate *)

MaxBandFrames == 2

InitBands == InitAudio(SampleRates, ConfigSmoothing) /\ InitFreq /\ InitBakeIdle /\ InitUi

NextBands == FreeFrame(BandSnapshots, MaxBandFrames)

SpecBands == InitBands /\ [][NextBands]_vars

BandNames == {"bass", "mid", "treble", "overall"}

\* C1: after any call of updateFFTAndBands, for every sample rate and every
\* snapshot of bytes, energy.bass, energy.mid, energy.treble and
\* energy.overall each lie within [0,1].
C1_EnergyInUnitRange ==
    \A b \in BandNames : 0 <= energy[b] /\ energy[b] <= Scale

C1_Witness ==
    /\ frames > 0
    /\ spec = BassHeavy
    /\ energy.bass = Scale
    /\ energy.overall > 0
    /\ energy.overall < Scale

---------------------------------------------------------------------------
(* freqToIndex called directly *)

HzProbes ==
    (0 .. MaxHzFine)
    \cup {BassLoHz, BassHiHz, MidLoHz, MidHiHz, TrebleLoHz, TrebleHiHz,
          OverallLoHz, OverallHiHz}
    \cup {3999, 4000, 4001, 11025, 22049, 22050, 22051, 24000, 48000,
          95999, 96000, 96001, 200000}

CallFreqToIndex ==
    /\ \E hz \in HzProbes :
          /\ hzIn' = hz
          /\ idxOut' = freqToIndex(hz)
    /\ UNCHANGED <<audioVars, bakeVars, uiVars>>

InitFreqSpec == InitAudio(SampleRates, ConfigSmoothing) /\ InitFreq /\ InitBakeIdle /\ InitUi

NextFreq == CallFreqToIndex

SpecFreq == InitFreqSpec /\ [][NextFreq]_vars

C2_Clamped ==
    /\ idxOut \in 0 .. (fftBins - 1)
    /\ (sampleRate = 44100 /\ hzIn = 0) => idxOut = 0
    /\ (sampleRate = 44100 /\ hzIn >= 22050) => idxOut = 1023

C2_MonotoneStep == (hzIn' >= hzIn) => (idxOut' >= idxOut)

\* C2: for every sample rate in 8 kHz..192 kHz and every hz >= 0,
\* freqToIndex(hz) is an integer in [0, binCount-1] and is non-decreasing in
\* hz; at 44100 Hz with 1024 bins freqToIndex(0) = 0 and freqToIndex(hz) =
\* 1023 for every hz >= 22050.
C2_FreqToIndexClampedMonotone == [](C2_Clamped) /\ [][C2_MonotoneStep]_vars

C2_Witness ==
    /\ sampleRate = 192000
    /\ hzIn = 200000
    /\ idxOut = fftBins - 1

---------------------------------------------------------------------------
(* The band windows *)

\* the sum of sp over the bins lo..hi, by halving the range
RECURSIVE RangeSum(_, _, _)
RangeSum(sp, lo, hi) ==
    IF lo > hi THEN 0
    ELSE IF lo = hi THEN sp[lo]
    ELSE LET m == (lo + hi) \div 2
         IN  RangeSum(sp, lo, m) + RangeSum(sp, m + 1, hi)

\* the mean of sp over the closed index range [lo, hi] divided by 255, and 0
\* when the range holds no bin
WindowMean(sp, loHz, hiHz) ==
    LET lo == Max(0, freqToIndex(loHz))
        hi == Min(fftBins - 1, freqToIndex(hiHz))
    IN  IF hi < lo THEN 0
        ELSE RoundDiv(RangeSum(sp, lo, hi) * Scale, (hi - lo + 1) * 255)

\* C3: after updateFFTAndBands each band energy is the arithmetic mean of
\* the snapshot samples over the closed bin range
\* [freqToIndex(loHz), freqToIndex(hiHz)] divided by 255 (0 for an empty
\* range), with windows bass 20-200, mid 110-1500, treble 20-3000 and
\* overall 0-20000 Hz.
C3_BandsAreWindowMeans ==
    frames > 0 =>
        /\ energy.bass = WindowMean(spec, 20, 200)
        /\ energy.mid = WindowMean(spec, 110, 1500)
        /\ energy.treble = WindowMean(spec, 20, 3000)
        /\ energy.overall = WindowMean(spec, 0, 20000)

C3_Witness ==
    /\ frames > 0
    /\ sampleRate = 44100
    /\ spec = Step(5, 0, 200)
    /\ energy.bass > 0
    /\ energy.bass < energy.overall
    /\ energy.overall < energy.mid


---------------------------------------------------------------------------
(* The morph envelope *)

\* C4: in every reachable state, whatever the sequence of spectrum inputs,
\* morphEnv lies within [0,1].
C4_MorphEnvInUnitRange == 0 <= morphEnv /\ morphEnv <= Scale

C4_Witness ==
    /\ frames > 0
    /\ spec = FullScale
    /\ morphEnv > Pct(EnvInitPct)
    /\ morphEnv >= Scale - 20


---------------------------------------------------------------------------
(* Sustained signals *)

\* a distance that counts as settled: one hundredth of full scale
SettleTol == Pct(1)

AllBands(r, v) == \A b \in BandNames : r[b] = v
BandsAtMost(r, v) == \A b \in BandNames : r[b] <= v
BandsAtLeast(r, v) == \A b \in BandNames : r[b] >= v

SilentForFiveSeconds == spec = Silence /\ sustain >= SettleFrames

\* C5: after 5 seconds of frames whose snapshot bins are all 0, the four band
\* energies are 0, the smoothed energies and the fast bass have settled to
\* 0, morphEnv has settled to 0 and uBassFast is 0 (each to within
\* SettleTol).
C5_SilenceSettlesToZero ==
    SilentForFiveSeconds =>
        /\ AllBands(energy, 0)
        /\ BandsAtMost(smooth, SettleTol)
        /\ fast.bass <= SettleTol
        /\ morphEnv <= SettleTol
        /\ uMorph <= SettleTol
        /\ uBassFast <= SettleTol

\* every frame so far saw the full-scale snapshot, and so does the next
OnlyFullScale ==
    /\ spec' = FullScale
    /\ \/ frames = 0
       \/ spec = FullScale /\ frames <= 1 /\ switches = 0

\* C6 as stated: with every bin at 255 on every frame the raw energies are
\* 1, the smoothed energies do not fall, the desired morph value is 1 and
\* morphEnv rises monotonically, closing the fraction morphAttack of the gap
\* to 1 on each frame.
C6_FullScaleStep ==
    OnlyFullScale =>
        /\ AllBands(energy', Scale)
        /\ \A b \in BandNames : smooth'[b] >= smooth[b]
        /\ morphDesired(fast'.bass) = Scale
        /\ morphEnv' >= morphEnv
        /\ morphEnv' = morphEnv + Mul(Scale - morphEnv, Pct(7))

C6_Original == [][C6_FullScaleStep]_vars

C6_RawAndSmoothed ==
    (spec' = FullScale) =>
        /\ AllBands(energy', Scale)
        /\ \A b \in BandNames : smooth'[b] >= smooth[b] /\ smooth'[b] <= Scale
        /\ fast'.bass >= fast.bass

C6_EnvelopeOnceDesiredIsOne ==
    (spec' = FullScale /\ morphDesired(fast'.bass) = Scale /\ morphEnv < Scale) =>
        /\ morphEnv' >= morphEnv
        /\ morphEnv' = morphEnv + Mul(Scale - morphEnv, Pct(7))
        /\ uMorph' = morphEnv'

C6_Settled ==
    (spec = FullScale /\ sustain >= SettleFrames) =>
        /\ AllBands(energy, Scale)
        /\ BandsAtLeast(smooth, Scale - SettleTol)
        /\ fast.bass >= Scale - SettleTol
        /\ morphDesired(fast.bass) = Scale
        /\ morphEnv >= Scale - SettleTol
        /\ uMorph = morphEnv

\* C6 (amended): with every bin at 255 the raw energies are exactly 1 and
\* the smoothed energies and the fast bass rise toward 1; once the fast bass
\* has risen so far that the desired morph value is 1, morphEnv rises
\* monotonically, closing the fraction morphAttack of the gap to 1 on each
\* frame; after 5 seconds of such frames the smoothed energies, the desired
\* value and uMorph are at 1 to within SettleTol.
C6_FullScaleRisesOnceGateSaturates ==
    /\ [][C6_RawAndSmoothed]_vars
    /\ [][C6_EnvelopeOnceDesiredIsOne]_vars
    /\ [](C6_Settled)

C6_Witness ==
    /\ spec = FullScale
    /\ sustain >= SettleFrames
    /\ switches = 1
    /\ morphDesired(fast.bass) = Scale
    /\ morphEnv > Pct(EnvInitPct)

---------------------------------------------------------------------------
(* The smoothing tracks under other smoothing constants *)

\* Config.smoothing as shipped, the constants of the earlier variant
\* (smoothK 0.07, fastK 0.85), and k = 1
SmoothingConfigs ==
    ConfigSmoothing \cup {<<Pct(7), Pct(85)>>, <<Pct(50), Scale>>, <<Scale, Scale>>}

InitSmooth == InitAudio({44100}, SmoothingConfigs) /\ InitFreq /\ InitBakeIdle /\ InitUi

NextSmooth ==
    \/ FreeFrame(Snapshots, MaxFree)
    \/ HeldFrame

SpecSmooth == InitSmooth /\ [][NextSmooth]_vars

\* the distance at which a track with constant k stops moving: below it
\* (b - a) * k rounds to no unit at all
StallTol(k) == (Scale \div (2 * k)) + 1

TrackContracts(old, new, raw, k) ==
    /\ Abs(raw - new) <= Abs(raw - old)
    /\ Abs(Abs(raw - new) - Mul(Abs(raw - old), Scale - k)) <= 1
    /\ (k = Scale) => new = raw

C7_SameInputStep ==
    (energy' = energy) =>
        /\ \A b \in BandNames : TrackContracts(smooth[b], smooth'[b], energy'[b], smoothK)
        /\ TrackContracts(fast.bass, fast'.bass, energy'.bass, fastK)

C7_Converged ==
    (sustain >= SettleFrames) =>
        /\ \A b \in BandNames : Abs(energy[b] - smooth[b]) <= StallTol(smoothK)
        /\ Abs(energy.bass - fast.bass) <= StallTol(fastK)

C7_KOneAfterOneUpdate ==
    (frames > 0) =>
        /\ (smoothK = Scale) => smooth = energy
        /\ (fastK = Scale) => fast.bass = energy.bass

\* C7: for each smoothing track, a frame that feeds the same raw value as
\* the frame before never increases the distance to that value and shrinks
\* it by the factor 1-k (to within one rounding unit); held for 5 seconds
\* the track is within the rounding stall distance of the input; and with
\* k = 1 the track equals the input after one update.
C7_SmoothingConverges ==
    /\ [][C7_SameInputStep]_vars
    /\ [](C7_Converged)
    /\ [](C7_KOneAfterOneUpdate)

C7_Witness ==
    /\ sustain >= SettleFrames
    /\ spec = BassHeavy
    /\ smoothK = Pct(SlowPct)
    /\ fastK = Pct(FastPct)
    /\ smooth.overall > 0
    /\ fast.bass > Scale - StallTol(fastK)
    /\ fast.bass < Scale


---------------------------------------------------------------------------
(* SpecBake: page loads that build or load the morph target *)

StorageModes == {"ok", "denied", "full"}

InitBakeSpec ==
    /\ InitAudio({44100}, ConfigSmoothing)
    /\ InitFreq
    /\ InitBake(1 .. MaxVerts, [n \in 1 .. MaxVerts |-> InitialDocs(n)],
                StorageModes, StlShapes)
    /\ InitUi

\* showOverlay: root.style.display = "flex"
showOverlay == TRUE

\* a finally block that leaves the overlay as it is
hideOverlaySkipped(shown) == shown

\* hideOverlay: root.style.display = "none"
hideOverlay(shown) == FALSE

\* what a run of the loop leaves behind: at a yield the loop state, at the
\* end the progress of 1, the stored text, the returned array and the
\* attribute that loadAndBakeSTLMorph applies it to
BakeOutcome(run, key, attr) ==
    /\ bakePc' = run.pc
    /\ bakeI' = run.i
    /\ bakeTarget' = run.target
    /\ rayCasts' = run.casts
    /\ progress' = run.pct
    /\ overlayShown' = IF run.pc = "yielded" THEN showOverlay
                       ELSE hideOverlay(showOverlay)
    /\ IF run.pc = "returned"
       THEN /\ storage' = cacheWrite(storage, storageMode, key, run.target)
            /\ storedField' = IF storageMode = "ok"
                              THEN [storedField EXCEPT ![key] =
                                       [has |-> TRUE, arr |-> run.target]]
                              ELSE storedField
            /\ bakeResult' = run.target
            /\ targetAttr' = applyMorphTargetArray(attr, run.target)
       ELSE /\ bakeResult' = EmptyArr
            /\ targetAttr' = attr
            /\ UNCHANGED <<storage, storedField>>

\* a page load: the Visualizer is constructed over n base vertices and
\* loadAndBakeSTLMorph calls buildOrLoadRadialMorphTarget, which runs up to
\* its return from the cache or its first yield
StartBakeUpTo(verts, limit) ==
    /\ bakePc \in {"idle", "returned"}
    /\ sessions < limit
    /\ stlLoad # "failed"
    /\ stlLoad' = "loaded"
    /\ \E n \in verts :
       \E r \in {cacheRead(storage, storageMode, CacheKey(n), 3 * n)} :
          /\ baseVerts' = n
          /\ bakeKey' = CacheKey(n)
          /\ bakeTotal' = n
          /\ entryAtCall' = storage[CacheKey(n)]
          /\ fromCache' = r.hit
          /\ IF r.hit
             THEN /\ bakePc' = "returned"
                  /\ bakeI' = 0
                  /\ bakeTarget' = EmptyArr
                  /\ rayCasts' = 0
                  /\ progress' = Scale
                  /\ bakeResult' = r.arr
                  /\ targetAttr' = applyMorphTargetArray(freshTargetAttr(n), r.arr)
                  /\ overlayShown' = hideOverlay(showOverlay)
                  /\ UNCHANGED <<storage, storedField>>
             ELSE BakeOutcome(bakeRun(zeros(3 * n), stl, 0, n, 0),
                              CacheKey(n), freshTargetAttr(n))
    /\ sessions' = sessions + 1
    /\ UNCHANGED <<storageMode, stl, audioVars, freqVars>>
    /\ UNCHANGED <<tickVars, spinVars, paletteVars, errorLogged, meshGen,
                   uniformsOf, midBakeEvents, moreVars>>

StartBake == StartBakeUpTo(1 .. MaxVerts, MaxSessions)

\* the animation frame after a yield: the loop carries on
ResumeBake ==
    /\ bakePc = "yielded"
    /\ BakeOutcome(bakeRun(bakeTarget, stl, bakeI, bakeTotal, rayCasts),
                   bakeKey, targetAttr)
    /\ UNCHANGED <<baseVerts, bakeKey, bakeTotal, entryAtCall, fromCache,
                   sessions, storageMode, stl, audioVars, freqVars>>
    /\ UNCHANGED <<tickVars, spinVars, paletteVars, stlLoad, errorLogged,
                   meshGen, uniformsOf, midBakeEvents, moreVars>>

NextBake == StartBake \/ ResumeBake

SpecBake == InitBakeSpec /\ [][NextBake]_vars

\* the length of the array the cache read decodes from a stored text
DecodesTo(doc, n) ==
    /\ doc.kind \notin {"none", "empty"}
    /\ newFloat32Array(doc).ok
    /\ Length(newFloat32Array(doc).arr) = n

DecodesToOtherLength(doc, n) ==
    /\ doc.kind \notin {"none", "empty"}
    /\ newFloat32Array(doc).ok
    /\ Length(newFloat32Array(doc).arr) # n

\* C8: a returned array that came from the cache has 3 x the base vertex
\* count elements; when the entry under the key decodes to an array of
\* another length the call does not return it: it casts one ray per base
\* vertex and returns the rebuilt array of the right length
C8_WrongLengthNeverReturned ==
    bakePc = "returned" =>
        /\ fromCache => Length(bakeResult) = 3 * bakeTotal
        /\ (storageMode # "denied" /\ DecodesToOtherLength(entryAtCall, 3 * bakeTotal))
              => /\ ~fromCache
                 /\ rayCasts = bakeTotal
                 /\ Length(bakeResult) = 3 * bakeTotal

C8_Witness ==
    /\ bakePc = "returned"
    /\ storageMode = "ok"
    /\ entryAtCall.kind = "array"
    /\ Length(entryAtCall.items) = 3 * bakeTotal + 3
    /\ ~fromCache
    /\ rayCasts = bakeTotal
    /\ bakeTotal = MaxVerts

\* C9: once a call has computed a field and stored it, the next call with
\* the same key and vertex count returns at once, from the cache, without a
\* ray cast, an array equal element by element to the stored field
C9_SecondCallStep ==
    (bakePc = "returned" /\ sessions' = sessions + 1 /\ storedField[bakeKey'].has)
        => /\ bakePc' = "returned"
           /\ fromCache'
           /\ rayCasts' = 0
           /\ DOMAIN bakeResult' = DOMAIN storedField[bakeKey'].arr
           /\ \A i \in DOMAIN bakeResult' :
                 bakeResult'[i] = storedField[bakeKey'].arr[i]

C9_CacheRoundTrip == [][C9_SecondCallStep]_vars

C9_Witness ==
    /\ sessions = 2
    /\ bakePc = "returned"
    /\ fromCache
    /\ rayCasts = 0
    /\ storedField[bakeKey].has
    /\ bakeResult = storedField[bakeKey].arr
    /\ entryAtCall = stringify(bakeResult)
    /\ \E i \in DOMAIN bakeResult : bakeResult[i].v % Scale # 0

\* the field a full rebuild computes
RECURSIVE FreshField(_, _, _, _)
FreshField(tgt, shape, i, total) ==
    IF i >= total THEN tgt
    ELSE FreshField(bakeVertex(tgt, shape, i), shape, i + 1, total)

IsArrayOfNumbers(doc) ==
    /\ doc.kind = "array"
    /\ \A i \in DOMAIN doc.items : doc.items[i].t = "num"

\* C10: whenever the read throws, there is no entry, the entry is not JSON
\* or is not an array of numbers, the call returns a freshly rebuilt field
\* and the entry is not what it returns
C10_CorruptCacheRebuilt ==
    (/\ bakePc = "returned"
     /\ \/ storageMode = "denied"
        \/ ~IsArrayOfNumbers(entryAtCall))
        => /\ ~fromCache
           /\ rayCasts = bakeTotal
           /\ bakeResult = FreshField(zeros(3 * bakeTotal), stl, 0, bakeTotal)


---------------------------------------------------------------------------
(* SpecTick: the render loop, the frame clock, drag and gyro *)

TickGaps == {16, 250}
TickSnapshots == {BassHeavy}
PointerPoints == {<<0, 0>>, <<2000, 500>>}
Orientations == {<<180, 90>>, <<-90, -45>>}

\* the browser begins an animation tick: it takes the callbacks registered
\* so far and will run each of them once with the tick's timestamp
BeginTick(gaps, limit) ==
    /\ running = 0
    /\ ticks < limit
    /\ \E gap \in gaps : clock' = clock + gap
    /\ ticks' = ticks + 1
    /\ running' = rafLoop
    /\ rafLoop' = 0
    /\ UNCHANGED <<lastTime, dt, frameCalls, samples, draws, frameOrder, events>>
    /\ UNCHANGED <<audioVars, freqVars, bakeVars, spinVars, paletteVars, meshVars,
                   moreVars>>

\* frame(): the clock
frameClock(t) ==
    /\ dt' = frameDt(lastTime, t)
    /\ lastTime' = t

\* frame(): spin and gyro
frameSpin ==
    /\ rotX' = angVelX + gyroY(gyro)
    /\ rotY' = angVelY + gyroX(gyro)
    /\ angVelX' = dampVel(angVelX)
    /\ angVelY' = dampVel(angVelY)
    /\ UNCHANGED <<gyro, dragging, lastX, lastY>>

\* frame(): palette hue drift, from this.pal through the HSL caches
framePalette ==
    /\ baseHSL' = pal
    /\ uBaseColor' = pal
    /\ uGlowColor' = pal
    /\ UNCHANGED <<build, pal, cssBackground, sceneBackground, starfieldTint,
                   paletteEvents>>

\* frame(): the rotation step, the reactivity and distortion uniforms, the
\* orbit phase, the light intensities, the bloom strength and the hues of the
\* colour uniforms, from the bands and the dt this frame has just computed
frameFx ==
    LET e == frameEnergy(smooth')
        shift == hueShift(smooth'.mid)
    IN  /\ rotStep' = frameRotStep(rotationSpeed)
        /\ uReactivity' = frameReactivity(reactivity, smooth'.overall)
        /\ uDistortion' = frameDistortion(distortion)
        /\ orbitPhase' = orbitStep(orbitPhase, dt', smooth')
        /\ uKeyI' = lightIntensity(Pct(KeyIntensityPct), e)
        /\ uFillI' = lightIntensity(Pct(FillIntensityPct), e)
        /\ uRimI' = lightIntensity(Pct(RimIntensityPct), e)
        /\ bloomStrength' = frameBloom(bloomStrength, e)
        /\ uHue' = [base |-> frameHue(palHue.base, uHue.base, shift),
                    glow |-> frameHue(palHue.glow, uHue.glow,
                                      Mul(shift, Pct(GlowShiftPct)))]
        /\ override' = IF override.kind = "none" THEN override
                       ELSE [override EXCEPT !.frames = Min(@ + 1, 2)]
        /\ UNCHANGED <<rotationSpeed, distortion, reactivity, palHue>>

\* loop(t): viz.frame(t), then requestAnimationFrame(loop)
RunLoop(snaps) ==
    /\ running > 0
    /\ \E snap \in snaps :
          /\ frame(snap)
          /\ sustain' = IF frames > 0 /\ snap = spec
                        THEN Min(sustain + 1, SettleFrames) ELSE 1
    /\ frames' = Min(frames + 1, MaxFree)
    /\ frameClock(seconds(clock))
    /\ frameSpin
    /\ framePalette
    /\ frameFx
    /\ frameCalls' = frameCalls + 1
    /\ samples' = samples + 1
    /\ draws' = draws + 1
    /\ frameOrder' = FrameSteps
    /\ rafLoop' = rafAfterLoop(rafLoop)
    /\ running' = running - 1
    /\ UNCHANGED <<clock, ticks, events, switches, freqVars, bakeVars, meshVars>>
    /\ UNCHANGED <<sceneVars, permVars, playVars>>

\* canvas pointerdown
PointerDown ==
    /\ running = 0
    /\ events < MaxEvents
    /\ \E p \in PointerPoints :
          /\ lastX' = p[1]
          /\ lastY' = p[2]
    /\ dragging' = TRUE
    /\ events' = events + 1
    /\ UNCHANGED <<angVelX, angVelY, gyro, rotX, rotY>>
    /\ UNCHANGED <<clock, lastTime, dt, ticks, running, rafLoop, frameCalls,
                   samples, draws, frameOrder>>
    /\ UNCHANGED <<audioVars, freqVars, bakeVars, paletteVars, meshVars, moreVars>>

\* canvas pointermove
PointerMove ==
    /\ running = 0
    /\ events < MaxEvents
    /\ \E p \in PointerPoints :
          IF ~dragging
          THEN UNCHANGED <<angVelX, angVelY, lastX, lastY>>
          ELSE /\ lastX' = p[1]
               /\ lastY' = p[2]
               /\ angVelY' = dragVel(angVelY, p[1] - lastX)
               /\ angVelX' = dragVel(angVelX, p[2] - lastY)
    /\ events' = events + 1
    /\ UNCHANGED <<gyro, dragging, rotX, rotY>>
    /\ UNCHANGED <<clock, lastTime, dt, ticks, running, rafLoop, frameCalls,
                   samples, draws, frameOrder>>
    /\ UNCHANGED <<audioVars, freqVars, bakeVars, paletteVars, meshVars, moreVars>>

\* canvas pointerup
PointerUp ==
    /\ running = 0
    /\ events < MaxEvents
    /\ dragging' = FALSE
    /\ events' = events + 1
    /\ UNCHANGED <<angVelX, angVelY, gyro, lastX, lastY, rotX, rotY>>
    /\ UNCHANGED <<clock, lastTime, dt, ticks, running, rafLoop, frameCalls,
                   samples, draws, frameOrder>>
    /\ UNCHANGED <<audioVars, freqVars, bakeVars, paletteVars, meshVars, moreVars>>

\* toggleGyro with a permission request that is answered at once: off when
\* on; on, with the listener, when granted; the status message when denied
ToggleGyro ==
    /\ running = 0
    /\ events < MaxEvents
    /\ permPending = 0
    /\ \E granted \in BOOLEAN :
          IF gyro.on
          THEN /\ gyro' = [gyro EXCEPT !.on = FALSE]
               /\ listeners' = removeEventListener(listeners)
               /\ UNCHANGED <<statText, denials, lastAnswer>>
          ELSE IF granted
          THEN /\ gyro' = [gyro EXCEPT !.on = TRUE]
               /\ listeners' = addEventListener(listeners)
               /\ lastAnswer' = "granted"
               /\ UNCHANGED <<statText, denials>>
          ELSE /\ statText' = "Gyro permission denied"
               /\ denials' = denials + 1
               /\ lastAnswer' = "denied"
               /\ UNCHANGED <<gyro, listeners>>
    /\ events' = events + 1
    /\ UNCHANGED <<angVelX, angVelY, dragging, lastX, lastY, rotX, rotY>>
    /\ UNCHANGED <<clock, lastTime, dt, ticks, running, rafLoop, frameCalls,
                   samples, draws, frameOrder>>
    /\ UNCHANGED <<audioVars, freqVars, bakeVars, paletteVars, meshVars>>
    /\ UNCHANGED <<fxVars, sceneVars, playVars, permApi, permPending, permPeak>>

\* onDOF: the deviceorientation event reaches a registered listener
DeviceOrientation ==
    /\ running = 0
    /\ events < MaxEvents
    /\ listeners > 0
    /\ \E o \in Orientations :
          gyro' = [gyro EXCEPT !.roll = gyroRoll(o[2]), !.pitch = gyroPitch(o[1])]
    /\ events' = events + 1
    /\ UNCHANGED <<angVelX, angVelY, dragging, lastX, lastY, rotX, rotY>>
    /\ UNCHANGED <<clock, lastTime, dt, ticks, running, rafLoop, frameCalls,
                   samples, draws, frameOrder>>
    /\ UNCHANGED <<audioVars, freqVars, bakeVars, paletteVars, meshVars, moreVars>>

NextTick ==
    \/ BeginTick(TickGaps, MaxTicks)
    \/ RunLoop(TickSnapshots)
    \/ PointerDown
    \/ PointerMove
    \/ PointerUp
    \/ ToggleGyro
    \/ DeviceOrientation

SpecTick == Init /\ [][NextTick]_vars


\* position of a stage in the recorded order (0 when it did not run)
StepIndex(order, name) ==
    IF \E i \in 1 .. Len(order) : order[i] = name
    THEN CHOOSE i \in 1 .. Len(order) : order[i] = name
    ELSE 0

Occurrences(order, name) == Cardinality({i \in 1 .. Len(order) : order[i] = name})

\* C18: every animation tick runs exactly one loop callback, hence one
\* frame(); every frame() reads the spectrum once and draws once; within a
\* frame the stages run in the order sample, bands, smoothers, camera,
\* starfield, mesh shader parameters, and the draw comes last
C18_OneFramePerTick ==
    /\ running <= 1
    /\ running + rafLoop = 1
    /\ frameCalls + running = ticks
    /\ samples = frameCalls
    /\ draws = frameCalls
    /\ frameCalls > 0 =>
          /\ Occurrences(frameOrder, "sample") = 1
          /\ Occurrences(frameOrder, "draw") = 1
          /\ StepIndex(frameOrder, "sample") = 1
          /\ StepIndex(frameOrder, "sample") < StepIndex(frameOrder, "bands")
          /\ StepIndex(frameOrder, "bands") < StepIndex(frameOrder, "smooth")
          /\ StepIndex(frameOrder, "smooth") < StepIndex(frameOrder, "camera")
          /\ StepIndex(frameOrder, "camera") < StepIndex(frameOrder, "starfield")
          /\ StepIndex(frameOrder, "starfield") < StepIndex(frameOrder, "uniforms")
          /\ StepIndex(frameOrder, "draw") = Len(frameOrder)

C18_Witness ==
    /\ ticks = 2
    /\ running = 0
    /\ frameCalls = 2
    /\ samples = 2
    /\ draws = 2
    /\ events > 0

\* C19: the dt of every frame is at most 0.1 s, and the first frame
\* integrates with 0.016 s
C19_DtClamped ==
    /\ dt <= Pct(DtMaxPct)
    /\ frameCalls = 1 => dt = seconds(DtFirstMs)

C19_Witness ==
    /\ frameCalls >= 2
    /\ dt = Pct(DtMaxPct)
    /\ lastTime > seconds(250)

\* C20: the angular velocities stay within the clamp, and so do the steps
\* handed to rotateX and rotateY, gyro offset included
C20_SpinWithinClamp ==
    /\ Abs(angVelX) <= maxOmega
    /\ Abs(angVelY) <= maxOmega
    /\ Abs(rotX) <= maxOmega
    /\ Abs(rotY) <= maxOmega


---------------------------------------------------------------------------
(* SpecPalette: palette changes between frames *)

\* Visualizer.setPalette (first definition only): the palette and the CSS
\* backdrop are replaced, then mixHex, a function local to the constructor,
\* is not in scope and the ReferenceError ends the method
SetPalette ==
    /\ running = 0
    /\ events < MaxEvents
    /\ build = "first"
    /\ \E id \in Palettes :
          /\ pal' = id
          /\ palHue' = paletteHue(id)
          /\ cssBackground' = id
    /\ paletteEvents' = paletteEvents + 1
    /\ events' = events + 1
    /\ UNCHANGED <<build, sceneBackground, uBaseColor, uGlowColor,
                   starfieldTint, baseHSL>>
    /\ UNCHANGED <<clock, lastTime, dt, ticks, running, rafLoop, frameCalls,
                   samples, draws, frameOrder>>
    /\ UNCHANGED <<audioVars, freqVars, bakeVars, spinVars, meshVars>>
    /\ UNCHANGED <<rotationSpeed, distortion, reactivity, bloomStrength,
                   uReactivity, uDistortion, rotStep, orbitPhase, uKeyI, uFillI,
                   uRimI, uHue, override, sceneVars, permVars, playVars>>

\* the palette-select change handler of main: viz.pal, the HSL caches,
\* applyPaletteToMaterialsAndUI (colour uniforms, CSS backdrop) and
\* rebuildStarfield
PaletteSelectChangeTo(ids, limit) ==
    /\ running = 0
    /\ events < limit
    /\ \E id \in ids :
          /\ pal' = id
          /\ baseHSL' = id
          /\ uBaseColor' = id
          /\ uGlowColor' = id
          /\ cssBackground' = id
          /\ starfieldTint' = id
          /\ palHue' = paletteHue(id)
          /\ uHue' = paletteHue(id)
    /\ rebuildStarfield
    /\ paletteEvents' = paletteEvents + 1
    /\ events' = events + 1
    /\ UNCHANGED <<build, sceneBackground>>
    /\ UNCHANGED <<clock, lastTime, dt, ticks, running, rafLoop, frameCalls,
                   samples, draws, frameOrder>>
    /\ UNCHANGED <<audioVars, freqVars, bakeVars, spinVars, meshVars>>
    /\ UNCHANGED <<rotationSpeed, distortion, reactivity, bloomStrength,
                   uReactivity, uDistortion, rotStep, orbitPhase, uKeyI, uFillI,
                   uRimI, override, permVars, playVars>>

PaletteSelectChange == PaletteSelectChangeTo(Palettes, MaxEvents)

InitPaletteSpec ==
    /\ InitAudio({44100}, ConfigSmoothing)
    /\ InitFreq
    /\ InitBakeIdle
    /\ InitTick
    /\ InitSpin
    /\ InitPalette(Builds)
    /\ InitMesh({"pending"})
    /\ InitMore

NextPalette ==
    \/ SetPalette
    \/ PaletteSelectChange
    \/ BeginTick(TickGaps, MaxTicks)
    \/ RunLoop(TickSnapshots)

SpecPalette == InitPaletteSpec /\ [][NextPalette]_vars

\* C12: once a palette change has finished, the base colour, the glow
\* colour, the CSS backdrop, the scene background and the starfield tint
\* all come from the palette now in force
C12_PaletteSwapAtomic ==
    paletteEvents > 0 =>
        /\ uBaseColor = pal
        /\ uGlowColor = pal
        /\ cssBackground = pal
        /\ sceneBackground = pal
        /\ starfieldTint = pal


---------------------------------------------------------------------------
(* SpecMesh: one page load with its bake, resolution changes and frames *)

\* the vertex shader: p = mix(position, target, clamp(uMorph, 0, 1)),
\* component c of vertex i
shaderPosition(attr, u, i, c) ==
    LET p0 == basePosition(i)[c]
        p1 == attr[3 * i + c - 1]
    IN  IF p1.fin THEN Fin(lerp(p0, p1.v, clamp(u, 0, Scale))) ELSE NaN

\* every vertex of the solid mesh is drawn at its base position
ShowsBaseShape ==
    \A i \in 0 .. (baseVerts - 1), c \in 1 .. 3 :
        shaderPosition(targetAttr.solid, uMorph, i, c) = Fin(basePosition(i)[c])

\* loader.load rejects: loadAndBakeSTLMorph rejects before its try block
\* and the catch of main logs the error
StlFails ==
    /\ stlLoad = "pending"
    /\ sessions = 0
    /\ stlLoad' = "failed"
    /\ errorLogged' = TRUE
    /\ UNCHANGED <<overlayShown, meshGen, uniformsOf, midBakeEvents>>
    /\ UNCHANGED <<audioVars, freqVars, bakeVars, tickVars, spinVars, paletteVars,
                   moreVars>>

\* the resolution slider, moved to another subdivision and so to another
\* vertex count: makeMesh takes the old mesh out of the scene and builds a
\* new geometry with an all-zero target attribute and a new uniforms object
\* shared by both materials; scene.add, then applyPaletteToMaterialsAndUI
ResolutionChange ==
    /\ running = 0
    /\ events < MaxMeshEvents
    /\ \E n \in (1 .. MaxVerts) \ {baseVerts} :
          /\ baseVerts' = n
          /\ targetAttr' = freshTargetAttr(n)
    /\ replaceMesh
    /\ uReactivity' = reactivity
    /\ uDistortion' = distortion
    /\ uKeyI' = Pct(KeyIntensityPct)
    /\ uFillI' = Pct(FillIntensityPct)
    /\ uRimI' = Pct(RimIntensityPct)
    /\ uHue' = palHue
    /\ meshGen' = meshGen + 1
    /\ uniformsOf' = [solid |-> meshGen + 1, wire |-> meshGen + 1]
    /\ uMorph' = Pct(UMorphInitPct)
    /\ uBassFast' = Pct(UBassFastInitPct)
    /\ uBaseColor' = pal
    /\ uGlowColor' = pal
    /\ cssBackground' = pal
    /\ midBakeEvents' = IF bakePc = "yielded" THEN midBakeEvents + 1 ELSE midBakeEvents
    /\ events' = events + 1
    /\ UNCHANGED <<sampleRate, spec, energy, smooth, fast, smoothK, fastK,
                   morphEnv, frames, sustain, switches, freqVars>>
    /\ UNCHANGED <<storage, storageMode, stl, bakePc, bakeI, bakeTarget,
                   bakeTotal, bakeKey, bakeResult, fromCache, rayCasts,
                   progress, entryAtCall, storedField, sessions>>
    /\ UNCHANGED <<clock, lastTime, dt, ticks, running, rafLoop, frameCalls,
                   samples, draws, frameOrder, spinVars>>
    /\ UNCHANGED <<build, pal, sceneBackground, starfieldTint, baseHSL,
                   paletteEvents, stlLoad, errorLogged, overlayShown>>
    /\ UNCHANGED <<rotationSpeed, distortion, reactivity, bloomStrength, rotStep,
                   orbitPhase, palHue, override, permVars, playVars>>

MeshDocs(n) == {NoEntry, ArrayDoc([i \in 0 .. (3 * n - 1) |-> NumTok(7)])}

InitMeshSpec ==
    /\ InitAudio({44100}, ConfigSmoothing)
    /\ InitFreq
    /\ InitBake(1 .. MaxVerts, [n \in 1 .. MaxVerts |-> MeshDocs(n)],
                {"ok"}, {"spiky"})
    /\ InitUi

\* loadAndBakeSTLMorph once the STL has loaded, for the mesh now in place
LoadAndBake == StartBakeUpTo({baseVerts}, 1)

NextMesh ==
    \/ LoadAndBake
    \/ StlFails
    \/ ResumeBake
    \/ ResolutionChange
    \/ PaletteSelectChangeTo({"synth"}, MaxMeshEvents)
    \/ BeginTick({DtFirstMs}, MaxMeshTicks)
    \/ RunLoop(TickSnapshots)

\* frame callbacks keep firing: a suspended bake is resumed
SpecMesh ==
    /\ InitMeshSpec
    /\ [][NextMesh]_vars
    /\ WF_vars(ResumeBake)


\* the baked field is what the mesh now in place morphs toward
MorphInEffect ==
    /\ bakePc = "returned"
    /\ bakeTotal = baseVerts
    /\ targetAttr.solid = bakeResult

\* C11: when the target shape fails to load, the failure is logged, the
\* render loop keeps its one callback per tick, the target attribute stays
\* all zero and the mesh is drawn as its undeformed base shape
C11_FailedLoadKeepsBaseShape ==
    stlLoad = "failed" =>
        /\ errorLogged
        /\ running + rafLoop = 1
        /\ frameCalls + running = ticks
        /\ targetAttr = freshTargetAttr(baseVerts)
        /\ ShowsBaseShape

\* C13: after a resolution change the mesh is drawn undeformed for as long
\* as no bake for the new vertex count is in effect, and such a bake does
\* come into effect
C13_ResolutionChangeRebakes ==
    /\ []((meshGen > 1 /\ ~MorphInEffect) => ShowsBaseShape)
    /\ (meshGen > 1) ~> MorphInEffect

\* C14: the solid and the wire material read the same uniforms object and
\* the target attributes of the two geometries have equal contents
C14_SolidAndWireAgree ==
    /\ uniformsOf.solid = uniformsOf.wire
    /\ uniformsOf.solid = meshGen
    /\ DOMAIN targetAttr.solid = DOMAIN targetAttr.wire
    /\ \A i \in DOMAIN targetAttr.solid : targetAttr.solid[i] = targetAttr.wire[i]

C14_Witness ==
    /\ meshGen > 1
    /\ paletteEvents > 0
    /\ frameCalls > 0
    /\ MorphInEffect
    /\ ~fromCache
    /\ targetAttr.solid # zeros(3 * baseVerts)
    /\ targetAttr.wire = bakeResult

\* a user event leaves the loop state of a suspended bake alone
C17_EventStep ==
    (bakePc = "yielded" /\ events' # events)
        => UNCHANGED <<bakePc, bakeI, bakeTarget, bakeTotal, bakeKey, rayCasts>>

\* C17: a bake that has suspended is resumed until it returns a field of
\* 3 x the vertex count it was called for, and no resolution change,
\* palette change or frame in between alters its loop state
C17_BakeRunsToCompletion ==
    /\ (bakePc = "yielded")
          ~> (bakePc = "returned" /\ Length(bakeResult) = 3 * bakeTotal)
    /\ [][C17_EventStep]_vars

C17_Witness ==
    /\ bakePc = "returned"
    /\ ~fromCache
    /\ midBakeEvents > 0
    /\ baseVerts # bakeTotal
    /\ Length(bakeResult) = 3 * bakeTotal
    /\ rayCasts = bakeTotal

\* the last step of a bake that was suspended across a resolution change
C27_Completes ==
    /\ bakePc = "yielded"
    /\ bakePc' = "returned"
    /\ midBakeEvents > 0

\* the bake stores its array under the key it was called with
C27_StoreStep ==
    C27_Completes =>
        /\ bakeKey = CacheKey(bakeTotal)
        /\ storedField'[bakeKey].has
        /\ storedField'[bakeKey].arr = bakeResult'
        /\ Length(bakeResult') = 3 * bakeTotal
        /\ DecodesTo(storage'[bakeKey], 3 * bakeTotal)

\* every array stored under the key of n vertices has 3n entries
C27_StoredLengths ==
    \A n \in 1 .. MaxVerts :
        storedField[CacheKey(n)].has => Length(storedField[CacheKey(n)].arr) = 3 * n

\* C27 as stated: a bake that completes after the resolution was changed
\* while it was suspended leaves the target attributes of the mesh in place
\* unchanged
C27_LateBakeNeverApplied ==
    [][C27_Completes => (targetAttr' = targetAttr)]_vars

\* C27, amended: a bake that completes after the resolution was changed
\* while it was suspended leaves the target attributes of the mesh in place
\* unchanged when that mesh has another vertex count than the bake was
\* called for; the array is stored under the key of the old vertex count
\* with 3 x that count entries, and every array stored under the key of n
\* vertices has 3n entries
C27_LateBakeRejectedByLength ==
    /\ [][(C27_Completes /\ baseVerts # bakeTotal) => (targetAttr' = targetAttr)]_vars
    /\ [][C27_StoreStep]_vars
    /\ []C27_StoredLengths

C27_Witness ==
    /\ bakePc = "returned"
    /\ ~fromCache
    /\ midBakeEvents = 1
    /\ baseVerts # bakeTotal
    /\ targetAttr = freshTargetAttr(baseVerts)
    /\ storedField[bakeKey].has
    /\ Length(storedField[bakeKey].arr) = 3 * bakeTotal
    /\ Length(targetAttr.solid) # 3 * bakeTotal

\* C28: after any sequence of resolution changes and palette changes (each
\* of which rebuilds the starfield) the scene holds exactly one mesh group,
\* the one viz.mesh names, and exactly two starfield clouds, main and blur;
\* every mesh and starfield that was replaced is out of the scene and
\* disposed
C28_OneMeshTwoStarfields ==
    /\ scene \cap meshes = {vizMesh}
    /\ scene \cap stars = {vizStars.main, vizStars.blur}
    /\ vizStars.main # vizStars.blur
    /\ Cardinality(scene) = 3
    /\ \A o \in (meshes \cup stars) \ {vizMesh, vizStars.main, vizStars.blur} :
           o \in disposed /\ o \notin scene

C28_Witness ==
    /\ events = 2
    /\ Cardinality(meshes) = 2
    /\ Cardinality(stars) = 4
    /\ Cardinality(disposed) = 3
    /\ vizMesh \notin disposed


---------------------------------------------------------------------------
(* SpecChunks: bakes long enough to yield more than once, between frames *)

InitChunks ==
    /\ InitAudio({44100}, ConfigSmoothing)
    /\ InitFreq
    /\ InitBake(ChunkTotals, [n \in ChunkTotals |-> {NoEntry}], {"ok"}, StlShapes)
    /\ InitUi

NextChunks ==
    \/ StartBakeUpTo({baseVerts}, MaxSessions)
    \/ ResumeBake
    \/ BeginTick({DtFirstMs}, MaxTicks)
    \/ RunLoop(TickSnapshots)

SpecChunks == InitChunks /\ [][NextChunks]_vars

\* a step of the bake casts at most YIELD_EVERY rays before it yields or returns
C15_ChunkStep ==
    /\ (sessions' = sessions /\ rayCasts' # rayCasts)
          => (bakePc = "yielded" /\ rayCasts' - rayCasts <= YIELD_EVERY)
    /\ sessions' # sessions => rayCasts' <= YIELD_EVERY

\* a frame runs only while the bake is suspended or not running, and
\* leaves the loop state alone
C15_FrameStep ==
    frameCalls' # frameCalls
        => /\ bakePc \in {"idle", "yielded", "returned"}
           /\ UNCHANGED <<bakePc, bakeI, bakeTarget, rayCasts>>

\* C15: a fresh bake yields after at most 600 consecutive ray casts, and
\* frames run only at those yields, never inside a chunk
C15_YieldsEveryChunk == [][C15_ChunkStep /\ C15_FrameStep]_vars

C15_Witness ==
    /\ bakePc = "yielded"
    /\ bakeTotal = 2 * YIELD_EVERY + 1
    /\ rayCasts = 2 * YIELD_EVERY + 1
    /\ bakeI = 2 * YIELD_EVERY + 1
    /\ frameCalls > 0

\* within one call the reported progress does not decrease
C16_ProgressStep ==
    (sessions' = sessions /\ bakePc = "yielded") => progress' >= progress

\* C16: every progress value lies in [0,1], the values of one call do not
\* decrease, and the last one before the return is 1, on a cache hit as on
\* a fresh bake
C16_ProgressMonotone ==
    /\ [](progress >= 0 /\ progress <= Scale)
    /\ [](bakePc = "returned" => progress = Scale)
    /\ [][C16_ProgressStep]_vars

C16_Witness ==
    /\ bakePc = "yielded"
    /\ bakeTotal = 2 * YIELD_EVERY + 1
    /\ bakeI = YIELD_EVERY + 1
    /\ progress > 0
    /\ progress < Scale
    /\ sessions = 1

C16_WitnessCacheHit ==
    /\ bakePc = "returned"
    /\ fromCache
    /\ progress = Scale
    /\ bakeTotal = 2 * YIELD_EVERY + 1


---------------------------------------------------------------------------
(* SpecFx: slider overrides, the hue wheel and palette changes between frames *)

FxGaps == {0, 250}
FxSnapshots == {Silence, FullScale}
SliderValues == {Pct(250)}
WheelSteps == {Pct(WheelStepPct), -Pct(WheelStepPct)}

\* what a slider event leaves alone
SliderFrame ==
    /\ UNCHANGED <<uReactivity, uDistortion, rotStep, orbitPhase, uKeyI, uFillI,
                   uRimI, palHue, uHue>>
    /\ UNCHANGED <<clock, lastTime, dt, ticks, running, rafLoop, frameCalls,
                   samples, draws, frameOrder>>
    /\ UNCHANGED <<audioVars, freqVars, bakeVars, spinVars, paletteVars, meshVars>>
    /\ UNCHANGED <<sceneVars, permVars, playVars>>

\* the rotation slider: viz.rotationSpeed = v
RotInput ==
    /\ running = 0
    /\ events < MaxFxEvents
    /\ \E v \in SliderValues :
          /\ rotationSpeed' = v
          /\ override' = [kind |-> "rot", value |-> v, frames |-> 0]
    /\ events' = events + 1
    /\ UNCHANGED <<distortion, reactivity, bloomStrength>>
    /\ SliderFrame

\* the distortion slider: viz.distortion = v
DistInput ==
    /\ running = 0
    /\ events < MaxFxEvents
    /\ \E v \in SliderValues :
          /\ distortion' = v
          /\ override' = [kind |-> "dist", value |-> v, frames |-> 0]
    /\ events' = events + 1
    /\ UNCHANGED <<rotationSpeed, reactivity, bloomStrength>>
    /\ SliderFrame

\* the reactivity slider: viz.reactivity = v
ReactInput ==
    /\ running = 0
    /\ events < MaxFxEvents
    /\ \E v \in SliderValues :
          /\ reactivity' = v
          /\ override' = [kind |-> "react", value |-> v, frames |-> 0]
    /\ events' = events + 1
    /\ UNCHANGED <<rotationSpeed, distortion, bloomStrength>>
    /\ SliderFrame

\* the bloom slider: viz.bloomPass.strength = v
BloomInput ==
    /\ running = 0
    /\ events < MaxFxEvents
    /\ \E v \in SliderValues :
          /\ bloomStrength' = v
          /\ override' = [kind |-> "bloom", value |-> v, frames |-> 0]
    /\ events' = events + 1
    /\ UNCHANGED <<rotationSpeed, distortion, reactivity>>
    /\ SliderFrame

\* the wheel handler: both palette hues move by the step, then
\* applyPaletteToMaterialsAndUI copies the colours into the uniforms
Wheel ==
    /\ running = 0
    /\ events < MaxFxEvents
    /\ \E step \in WheelSteps :
          palHue' = [base |-> wheelHue(palHue.base, step),
                     glow |-> wheelHue(palHue.glow, step)]
    /\ uHue' = palHue'
    /\ baseHSL' = pal
    /\ uBaseColor' = pal
    /\ uGlowColor' = pal
    /\ cssBackground' = pal
    /\ events' = events + 1
    /\ UNCHANGED <<build, pal, sceneBackground, starfieldTint, paletteEvents>>
    /\ UNCHANGED <<rotationSpeed, distortion, reactivity, bloomStrength,
                   uReactivity, uDistortion, rotStep, orbitPhase, uKeyI, uFillI,
                   uRimI, override>>
    /\ UNCHANGED <<clock, lastTime, dt, ticks, running, rafLoop, frameCalls,
                   samples, draws, frameOrder>>
    /\ UNCHANGED <<audioVars, freqVars, bakeVars, spinVars, meshVars>>
    /\ UNCHANGED <<sceneVars, permVars, playVars>>

NextFx ==
    \/ BeginTick(FxGaps, MaxFxTicks)
    \/ RunLoop(FxSnapshots)
    \/ RotInput
    \/ DistInput
    \/ ReactInput
    \/ BloomInput
    \/ Wheel
    \/ PaletteSelectChangeTo({"synth"}, MaxFxEvents)

SpecFx == Init /\ [][NextFx]_vars

\* values a slider could have been set to instead
OverrideProbes == {Pct(30), Pct(250)}

\* C21: once a frame has run after a slider override, what the frame wrote
\* comes from the overridden value: the rotation step and uDistortion equal
\* it (scaled), and uReactivity and the bloom strength are values that no
\* other setting of the slider would have produced
C21_OverridesTakeEffect ==
    override.frames > 0 =>
        /\ override.kind = "rot" => rotStep = Mul(override.value, Pct(1))
        /\ override.kind = "dist" => uDistortion = override.value
        /\ override.kind = "react" =>
              \A v \in OverrideProbes \ {override.value} :
                  frameReactivity(v, smooth.overall) # uReactivity
        /\ (override.kind = "bloom" /\ override.frames = 1) =>
              \A v \in OverrideProbes \ {override.value} :
                  frameBloom(v, frameEnergy(smooth)) # bloomStrength


\* two hues no more than two rounding units apart on the hue circle
HueNear(a, b) == ((a - b) % Scale) \in {0, 1, 2, Scale - 1, Scale - 2}

\* a frame leaves the palette hues alone and writes, for each uniform, the
\* palette hue advanced by the share of the smoothed mid of this frame
C24_FrameStep ==
    (frameCalls' # frameCalls) =>
        /\ palHue' = palHue
        /\ HueNear(uHue'.base, palHue.base + RoundDiv(45 * smooth'.mid, 100))
        /\ HueNear(uHue'.glow, palHue.glow + RoundDiv(54 * smooth'.mid, 100))

\* C24: frame() never changes the palette colours, and the hues it writes
\* to uBaseColor and uGlowColor are the palette hues plus 0.45 and 0.54 of
\* the smoothed mid, modulo 1, whatever the uniforms held before
C24_HueNeverAccumulates == [][C24_FrameStep]_vars

C24_Witness ==
    /\ frameCalls = 2
    /\ smooth.mid > Pct(5)
    /\ uHue.base # palHue.base
    /\ palHue # paletteHue("burn")

\* a frame adds dt x speed to the phase, with speed the base speed plus 0.7
\* of the smoothed treble plus 0.2 of the smoothed overall; no other step
\* writes the phase
C25_PhaseStep ==
    LET speed == RoundDiv(15 * Scale, 1000) + Mul(Pct(70), smooth'.treble)
                     + Mul(Pct(20), smooth'.overall)
    IN  IF frameCalls' # frameCalls
        THEN /\ speed >= RoundDiv(15 * Scale, 1000)
             /\ RoundDiv(15 * Scale, 1000) > 0
             /\ dt' >= 0
             /\ orbitPhase' = orbitPhase + Mul(dt', speed)
             /\ orbitPhase' >= orbitPhase
        ELSE orbitPhase' = orbitPhase

\* C25: over frames with non-decreasing timestamps orbit.phase never
\* decreases; each frame adds dt x speed with speed >= baseSpeed > 0, and
\* nothing else writes it
C25_OrbitPhaseMonotone == [][C25_PhaseStep]_vars

C25_Witness ==
    /\ frameCalls = 2
    /\ dt = Pct(DtMaxPct)
    /\ smooth.treble > 0
    /\ orbitPhase > Mul(seconds(DtFirstMs), orbitBaseSpeed) + Mul(Pct(DtMaxPct), orbitBaseSpeed)

EnergyProbes == {0, Pct(25), Pct(50), Pct(75), Scale}

\* a frame writes each light intensity as the configured intensity times
\* 0.95 - 0.55 x energy and moves the bloom strength 0.08 of the way to
\* the configured bloom strength times the same factor
C26_LightStep ==
    LET en == Max(0, Min(Scale, smooth'.overall))
        factor == Pct(95) - Mul(Pct(55), en)
    IN  (frameCalls' # frameCalls) =>
            /\ uKeyI' = Mul(Pct(80), factor)
            /\ uFillI' = Mul(Pct(60), factor)
            /\ uRimI' = Mul(Pct(90), factor)
            /\ bloomStrength' - bloomStrength
                   = Mul(Mul(Pct(45), factor) - bloomStrength, Pct(8))

---------------------------------------------------------------------------
(* SpecOverlay: the progress overlay over a bake that returns or throws *)

\* what a bake that throws leaves alone
ThrowFrame ==
    /\ UNCHANGED <<storage, storageMode, baseVerts, stl, targetAttr, bakeI,
                   bakeTarget, bakeResult, rayCasts, progress, storedField>>
    /\ UNCHANGED <<meshGen, uniformsOf, midBakeEvents>>
    /\ UNCHANGED <<audioVars, freqVars, tickVars, spinVars, paletteVars, moreVars>>

\* loadAndBakeSTLMorph whose bake misses the cache and throws before its
\* first yield: showOverlay, then the catch logs and the finally hides,
\* all before the next task
LoadAndBakeThrows ==
    /\ bakePc = "idle"
    /\ sessions = 0
    /\ stlLoad = "pending"
    /\ ~cacheRead(storage, storageMode, CacheKey(baseVerts), 3 * baseVerts).hit
    /\ stlLoad' = "loaded"
    /\ bakeKey' = CacheKey(baseVerts)
    /\ bakeTotal' = baseVerts
    /\ entryAtCall' = storage[CacheKey(baseVerts)]
    /\ fromCache' = FALSE
    /\ bakePc' = "threw"
    /\ overlayShown' = hideOverlay(showOverlay)
    /\ errorLogged' = TRUE
    /\ sessions' = sessions + 1
    /\ ThrowFrame

\* the frame callback after a yield, with the loop throwing: the await in
\* loadAndBakeSTLMorph rejects, the catch logs and the finally hides
ResumeThrows ==
    /\ bakePc = "yielded"
    /\ bakePc' = "threw"
    /\ overlayShown' = hideOverlay(overlayShown)
    /\ errorLogged' = TRUE
    /\ UNCHANGED <<stlLoad, bakeKey, bakeTotal, entryAtCall, fromCache, sessions>>
    /\ ThrowFrame

\* the frame callback the bake is waiting for
BakeCallback == ResumeBake \/ ResumeThrows

NextOverlay ==
    \/ LoadAndBake
    \/ LoadAndBakeThrows
    \/ StlFails
    \/ ResumeBake
    \/ ResumeThrows
    \/ ResolutionChange
    \/ BeginTick({DtFirstMs}, MaxMeshTicks)
    \/ RunLoop(TickSnapshots)

\* frame callbacks keep firing: the callback of a suspended bake runs
SpecOverlay ==
    /\ InitMeshSpec
    /\ [][NextOverlay]_vars
    /\ WF_vars(BakeCallback)

\* the overlay is up only while the bake awaits a frame callback
C29_ShownOnlyWhileSuspended == overlayShown => bakePc = "yielded"

\* a failed load stays failed and never shows the overlay
C29_FailedLoadStep ==
    (stlLoad = "failed") => (stlLoad' = "failed" /\ ~overlayShown /\ ~overlayShown')

\* C29: whenever loadAndBakeSTLMorph has shown the progress overlay it is
\* eventually hidden, whether the bake returns a field or throws, given
\* that frame callbacks keep firing; and when the shape fails to load the
\* overlay is never shown
C29_OverlayEventuallyHidden ==
    /\ overlayShown ~> ~overlayShown
    /\ [](C29_ShownOnlyWhileSuspended)
    /\ [][C29_FailedLoadStep]_vars
    /\ [](stlLoad = "failed" => ~overlayShown)

C29_Witness ==
    /\ bakePc = "threw"
    /\ rayCasts > 0
    /\ errorLogged
    /\ ~overlayShown
    /\ stlLoad = "loaded"

C29_WitnessReturned ==
    /\ bakePc = "returned"
    /\ ~fromCache
    /\ rayCasts = bakeTotal
    /\ ~overlayShown

---------------------------------------------------------------------------
(* SpecGyro: gyro-button clicks, permission requests in flight, orientation
   events and frames *)

PermissionAnswers == {"granted", "denied", "throws"}

\* what the gyro handlers leave alone
GyroFrame ==
    /\ UNCHANGED <<angVelX, angVelY, dragging, lastX, lastY, rotX, rotY>>
    /\ UNCHANGED <<clock, lastTime, dt, ticks, running, rafLoop, frameCalls,
                   samples, draws, frameOrder>>
    /\ UNCHANGED <<audioVars, freqVars, bakeVars, paletteVars, meshVars>>
    /\ UNCHANGED <<fxVars, sceneVars, playVars, permApi>>

\* toggleGyro from the click to its return or to its await: off and the
\* listener removed when the gyro is on; otherwise the permission request
\* where the platform has one, and the listener at once where it has none
GyroClick ==
    /\ running = 0
    /\ events < MaxEvents
    /\ IF gyro.on
       THEN /\ listeners' = removeEventListener(listeners)
            /\ gyro' = [gyro EXCEPT !.on = FALSE]
            /\ UNCHANGED <<permPending, permPeak>>
       ELSE IF permApi
       THEN /\ permPending' = permPending + 1
            /\ permPeak' = Max(permPeak, permPending + 1)
            /\ UNCHANGED <<gyro, listeners>>
       ELSE /\ listeners' = addEventListener(listeners)
            /\ gyro' = [gyro EXCEPT !.on = TRUE]
            /\ UNCHANGED <<permPending, permPeak>>
    /\ events' = events + 1
    /\ UNCHANGED <<statText, denials, lastAnswer>>
    /\ GyroFrame

\* a pending requestPermission() settles and toggleGyro carries on: the
\* listener and gyro.on = true when granted, the catch block otherwise
PermissionSettles ==
    /\ running = 0
    /\ permPending > 0
    /\ \E r \in PermissionAnswers :
          /\ lastAnswer' = r
          /\ IF permissionGranted(r)
             THEN /\ listeners' = addEventListener(listeners)
                  /\ gyro' = [gyro EXCEPT !.on = TRUE]
                  /\ UNCHANGED <<statText, denials>>
             ELSE /\ statText' = "Gyro permission denied"
                  /\ denials' = denials + 1
                  /\ UNCHANGED <<gyro, listeners>>
    /\ permPending' = permPending - 1
    /\ UNCHANGED <<events, permPeak>>
    /\ GyroFrame

InitGyroSpec ==
    /\ InitAudio({44100}, ConfigSmoothing)
    /\ InitFreq
    /\ InitBakeIdle
    /\ InitTick /\ InitSpin /\ InitPalette({"second"}) /\ InitMesh({"pending"})
    /\ InitFx /\ InitScene /\ InitPerm(BOOLEAN) /\ InitPlay({"suspended"})

NextGyro ==
    \/ GyroClick
    \/ PermissionSettles
    \/ DeviceOrientation
    \/ BeginTick({DtFirstMs}, MaxMeshTicks)
    \/ RunLoop(TickSnapshots)

SpecGyro == InitGyroSpec /\ [][NextGyro]_vars

\* a permission request has just settled otherwise than with a grant
C22_DenialStep ==
    (permPending' < permPending /\ lastAnswer' # "granted")
        => /\ statText' = "Gyro permission denied"
           /\ gyro' = gyro
           /\ listeners' = listeners
           /\ (~gyro.on => (~gyro'.on /\ listeners' = 0))

\* a frame run while the gyro is off hands the bare angular velocities to
\* rotateX and rotateY
C22_FrameStep ==
    (frameCalls' # frameCalls /\ ~gyro.on /\ listeners = 0)
        => (rotX' = angVelX /\ rotY' = angVelY)

C30_FrameStep ==
    (frameCalls' # frameCalls /\ ~gyro.on) => (rotX' = angVelX /\ rotY' = angVelY)

\* C30: at most one deviceorientation listener is ever registered; once no
\* permission request is pending, gyro.on is true exactly when the listener
\* is registered; and a frame run while gyro.on is false adds no gyro offset
C30_GyroConsistent ==
    /\ [](listeners <= 1)
    /\ [](permPending = 0 => (gyro.on <=> listeners = 1))
    /\ [][C30_FrameStep]_vars

C30_Witness ==
    /\ permPeak >= 2
    /\ permPending = 0
    /\ ~gyro.on
    /\ listeners = 0
    /\ gyro.roll # 0
    /\ frameCalls > 0
    /\ rotY = angVelY


---------------------------------------------------------------------------
(* SpecPlay: the play button and the file input, with audio calls that may
   reject, between frames *)

AwaitOutcomes == {"resolves", "rejects"}

\* what the audio handlers leave alone
PlayFrame ==
    /\ UNCHANGED <<clock, lastTime, dt, ticks, running, rafLoop, frameCalls,
                   samples, draws, frameOrder>>
    /\ UNCHANGED <<audioVars, freqVars, bakeVars, spinVars, paletteVars, meshVars>>
    /\ UNCHANGED <<fxVars, sceneVars, permApi, permPending, listeners, denials,
                   permPeak, lastAnswer>>

\* the play-button handler up to its first await or its return: with the
\* element paused it resumes a suspended context, else calls audio.play();
\* with the element playing it pauses and suspends a running context
PlayClick ==
    /\ running = 0
    /\ events < MaxPlayEvents
    /\ IF audioPaused
       THEN IF actxState = "suspended"
            THEN /\ handlers' = [handlers EXCEPT !.resume = @ + 1]
                 /\ UNCHANGED audioPaused
            ELSE /\ handlers' = [handlers EXCEPT !.play = @ + 1]
                 /\ audioPaused' = FALSE
       ELSE /\ audioPaused' = TRUE
            /\ handlers' = IF actxState = "running"
                           THEN [handlers EXCEPT !.suspend = @ + 1]
                           ELSE handlers
    /\ events' = events + 1
    /\ UNCHANGED <<actxState, uncaught, audioFailures, statText>>
    /\ PlayFrame

\* actx.resume() settles; the handler goes on to audio.play()
ResumeSettles ==
    /\ running = 0
    /\ handlers.resume > 0
    /\ \E o \in AwaitOutcomes :
          /\ actxState' = IF o = "resolves" THEN "running" ELSE actxState
          /\ audioFailures' = IF o = "rejects" THEN audioFailures + 1 ELSE audioFailures
          /\ IF tryAwait(o) = "continue"
             THEN /\ audioPaused' = FALSE
                  /\ handlers' = [handlers EXCEPT !.resume = @ - 1, !.play = @ + 1]
                  /\ UNCHANGED uncaught
             ELSE /\ uncaught' = uncaught + 1
                  /\ handlers' = [handlers EXCEPT !.resume = @ - 1]
                  /\ UNCHANGED audioPaused
    /\ UNCHANGED <<events, statText>>
    /\ PlayFrame

\* audio.play() settles; a rejection is caught and reported in #stat
PlaySettles ==
    /\ running = 0
    /\ handlers.play > 0
    /\ \E o \in AwaitOutcomes :
          /\ audioFailures' = IF o = "rejects" THEN audioFailures + 1 ELSE audioFailures
          /\ audioPaused' = IF o = "rejects" THEN TRUE ELSE audioPaused
          /\ IF o = "rejects" /\ tryAwait(o) = "continue"
             THEN statText' = "Tap the audio control"
             ELSE UNCHANGED statText
          /\ uncaught' = IF tryAwait(o) = "continue" THEN uncaught ELSE uncaught + 1
    /\ handlers' = [handlers EXCEPT !.play = @ - 1]
    /\ UNCHANGED <<events, actxState>>
    /\ PlayFrame

\* actx.suspend() of the play-button handler settles
SuspendSettles ==
    /\ running = 0
    /\ handlers.suspend > 0
    /\ \E o \in AwaitOutcomes :
          /\ actxState' = IF o = "resolves" THEN "suspended" ELSE actxState
          /\ audioFailures' = IF o = "rejects" THEN audioFailures + 1 ELSE audioFailures
          /\ uncaught' = IF tryAwait(o) = "continue" THEN uncaught ELSE uncaught + 1
    /\ handlers' = [handlers EXCEPT !.suspend = @ - 1]
    /\ UNCHANGED <<events, audioPaused, statText>>
    /\ PlayFrame

\* the file-input change handler up to its await or its return: the
\* element is paused, a running context is suspended, then the source is set
FileChange ==
    /\ running = 0
    /\ events < MaxPlayEvents
    /\ audioPaused' = TRUE
    /\ IF actxState = "running"
       THEN /\ handlers' = [handlers EXCEPT !.fileSuspend = @ + 1]
            /\ UNCHANGED statText
       ELSE /\ \E hasFile \in BOOLEAN :
                  statText' = IF hasFile THEN "Loaded file" ELSE statText
            /\ UNCHANGED handlers
    /\ events' = events + 1
    /\ UNCHANGED <<actxState, uncaught, audioFailures>>
    /\ PlayFrame

\* actx.suspend() of the file-input handler settles; the source is set
FileSuspendSettles ==
    /\ running = 0
    /\ handlers.fileSuspend > 0
    /\ \E o \in AwaitOutcomes, hasFile \in BOOLEAN :
          /\ actxState' = IF o = "resolves" THEN "suspended" ELSE actxState
          /\ audioFailures' = IF o = "rejects" THEN audioFailures + 1 ELSE audioFailures
          /\ uncaught' = IF tryAwait(o) = "continue" THEN uncaught ELSE uncaught + 1
          /\ statText' = IF hasFile /\ tryAwait(o) = "continue"
                         THEN "Loaded file" ELSE statText
    /\ handlers' = [handlers EXCEPT !.fileSuspend = @ - 1]
    /\ UNCHANGED <<events, audioPaused>>
    /\ PlayFrame

InitPlaySpec ==
    /\ InitAudio({44100}, ConfigSmoothing)
    /\ InitFreq
    /\ InitBakeIdle
    /\ InitTick /\ InitSpin /\ InitPalette({"second"}) /\ InitMesh({"pending"})
    /\ InitFx /\ InitScene /\ InitPerm({FALSE}) /\ InitPlay({"suspended", "running"})

NextPlay ==
    \/ PlayClick
    \/ ResumeSettles
    \/ PlaySettles
    \/ SuspendSettles
    \/ FileChange
    \/ FileSuspendSettles
    \/ BeginTick({DtFirstMs}, MaxTicks)
    \/ RunLoop(TickSnapshots)

SpecPlay == InitPlaySpec /\ [][NextPlay]_vars

\* C23: no rejection of resume(), suspend() or play() leaves a handler
\* uncaught, and whatever the clicks, file changes and rejections, every
\* animation tick that has run called frame() once and left one loop
\* callback registered
C23_AudioErrorsContained ==
    /\ uncaught = 0
    /\ running + rafLoop = 1
    /\ frameCalls = ticks - running
    /\ draws = frameCalls

C23_Witness ==
    /\ audioFailures >= 2
    /\ actxState = "running"
    /\ statText = "Tap the audio control"
    /\ handlers = NoHandlers
    /\ ticks = MaxTicks
    /\ frameCalls = MaxTicks

===========================================================================
